---------------------------- MODULE Spec2Model ----------------------------
(***************************************************************************)
(* A model of EoN's analytic layer (src/EoN/analytic.py) and of the        *)
(* helpers of src/EoN/__init__.py: the degree-statistics extractor, the    *)
(* derivative evaluators, the model drivers and the fixed-point            *)
(* iterations.                                                             *)
(*                                                                         *)
(* Numbers.  The program computes with floating-point numbers.  They are   *)
(* modelled as exact rationals [n |-> numerator, d |-> denominator] in     *)
(* lowest terms with d > 0.  The value with d = 0 is the result of a       *)
(* division by zero on numpy values (inf or nan, which the model does not  *)
(* tell apart) and it propagates through every later operation.            *)
(*                                                                         *)
(* Arrays.  A one-dimensional array is a function on 0 .. len-1; a matrix  *)
(* is an array of rows.  A flat state vector is a one-dimensional array;   *)
(* matrices are flattened row-major, as numpy does.                        *)
(*                                                                         *)
(* The sections "Rational arithmetic" and "Arrays" give the meaning of     *)
(* Python and numpy values and operators; every later section translates   *)
(* code of the repository.                                                 *)
(***************************************************************************)
EXTENDS Integers, Sequences, FiniteSets, TLC

VARIABLES
    G,      \* the graph the caller holds (G.nodes, G.edges)
    fn,     \* the routine that was called ("none" before any call)
    args,   \* the arguments of that call
    pc,     \* position inside the call
    V0,     \* the flat initial state vector the driver packed
    V,      \* the trajectory the integrator returned (a sequence of rows),
            \* or the lists a discrete recurrence has built so far
    ncalls, \* how many times the integrator has been invoked in this call
    its,    \* fixed-point iterations performed so far
    theta,  \* the current fixed-point iterate
    out,    \* what the call returned or raised: [exc |-> .., val |-> ..]
    stepper, \* the integrate.ode object r of my_odeint: its time t, its state
             \* y, the advances asked of it and the derivative calls it made
    applied  \* the last call of a function that a call returned: which one,
             \* at which arguments, and what it returned or raised

vars == <<G, fn, args, pc, V0, V, ncalls, its, theta, out, stepper, applied>>

---------------------------------------------------------------------------
(* Bounds of the model                                                     *)

MaxNodes == 3

---------------------------------------------------------------------------
(* Rational arithmetic                                                     *)

Abs(a) == IF a < 0 THEN -a ELSE a

RECURSIVE GCD(_, _)
GCD(a, b) == IF b = 0 THEN a ELSE GCD(b, a % b)

NaN == [n |-> 0, d |-> 0]

Frac(a, b) ==
    IF b = 0 THEN NaN
    ELSE LET g == GCD(Abs(a), Abs(b))
             s == IF b < 0 THEN -1 ELSE 1
         IN  [n |-> (s * a) \div g, d |-> (s * b) \div g]

Num(a) == [n |-> a, d |-> 1]
Zero == Num(0)
One == Num(1)

IsNaN(x) == x.d = 0
Defined(x) == x.d # 0

Add(x, y) == IF IsNaN(x) \/ IsNaN(y) THEN NaN
             ELSE Frac(x.n * y.d + y.n * x.d, x.d * y.d)
Neg(x) == IF IsNaN(x) THEN NaN ELSE [n |-> -x.n, d |-> x.d]
Sub(x, y) == Add(x, Neg(y))
Mul(x, y) == IF IsNaN(x) \/ IsNaN(y) THEN NaN
             ELSE Frac(x.n * y.n, x.d * y.d)
\* numpy division: a zero divisor gives inf or nan, never an exception
Div(x, y) == IF IsNaN(x) \/ IsNaN(y) \/ y.n = 0 THEN NaN
             ELSE Frac(x.n * y.d, x.d * y.n)
\* x > y for defined rationals
Gt(x, y) == x.n * y.d > y.n * x.d

RECURSIVE Pow(_, _)
Pow(x, k) == IF k = 0 THEN One ELSE Mul(x, Pow(x, k - 1))

---------------------------------------------------------------------------
(* Arrays                                                                  *)

Len0(a) == Cardinality(DOMAIN a)
Idx(a) == 0 .. (Len0(a) - 1)
Empty0 == [i \in {} |-> Zero]
Concat(a, b) ==
    [i \in 0 .. (Len0(a) + Len0(b) - 1) |->
        IF i < Len0(a) THEN a[i] ELSE b[i - Len0(a)]]
Slice(a, lo, hi) == [i \in 0 .. (hi - lo - 1) |-> a[lo + i]]

RECURSIVE SumOver(_, _)
SumOver(f, S) ==
    IF S = {} THEN Zero
    ELSE LET x == CHOOSE y \in S : TRUE
         IN  Add(f[x], SumOver(f, S \ {x}))
SumArr(a) == SumOver(a, DOMAIN a)

RECURSIVE IntSumOver(_, _)
IntSumOver(f, S) ==
    IF S = {} THEN 0
    ELSE LET x == CHOOSE y \in S : TRUE
         IN  f[x] + IntSumOver(f, S \ {x})

SetMax(S) == CHOOSE x \in S : \A y \in S : y <= x
SetMin(S) == CHOOSE x \in S : \A y \in S : x <= y

\* sorted(list(set(...)))
RECURSIVE Sorted(_)
Sorted(S) == IF S = {} THEN Empty0
             ELSE Concat([i \in {0} |-> SetMin(S)], Sorted(S \ {SetMin(S)}))

\* list.index(x): position of the first occurrence
IndexOf(a, x) == SetMin({i \in DOMAIN a : a[i] = x})

ScaleArr(c, a) == [i \in DOMAIN a |-> Mul(c, Num(a[i]))]
ScaleMat(c, M) == [i \in DOMAIN M |-> [j \in DOMAIN M[i] |-> Mul(c, Num(M[i][j]))]]

---------------------------------------------------------------------------
(* The graph interface (networkx)                                          *)

\* an edge is the set of its end points; {u} is a self-loop
Graphs ==
    UNION { { [nodes |-> 1 .. n, edges |-> E] :
                E \in SUBSET { e \in SUBSET (1 .. n) : Cardinality(e) \in {1, 2} } }
            : n \in 0 .. MaxNodes }

order(g) == Cardinality(g.nodes)
neighbors(g, u) == { v \in g.nodes : {u, v} \in g.edges }
\* G.degree(u): a self-loop counts twice
degree(g, u) ==
    Cardinality({ e \in g.edges : u \in e /\ Cardinality(e) = 2 })
    + (IF {u} \in g.edges THEN 2 ELSE 0)
\* G.edges(): every edge once, as an ordered pair
edges(g) == { <<SetMin(e), SetMax(e)>> : e \in g.edges }
degree_values(g) == { degree(g, u) : u \in g.nodes }

\* Counter(G.degree().values())[k]; a missing key counts 0
degree_count(g, k) == Cardinality({ u \in g.nodes : degree(g, u) = k })

Returned(v) == [exc |-> "none", val |-> v]
Raised(e) == [exc |-> e, val |-> <<>>]

\* the names bound in the namespace of analytic.py when one of its functions
\* runs: its four imports; everything the model looks up besides them is one
\* of the module's own functions or a builtin
ImportedNames == { "integrate", "shift", "scipy", "nx" }
OwnNames ==
    { "my_odeint", "get_Nk_and_IC_as_arrays", "get_NkNl_and_IC_as_arrays",
      "Epi_Prob_discrete", "get_Pk", "get_Psi", "get_PsiPrime", "get_PsiDPrime" }
Resolves(name) == name \in ImportedNames \cup OwnNames
\* raise <name>(...): evaluating the name comes first
RaiseNamed(name) == IF Resolves(name) THEN Raised(name) ELSE Raised("NameError")

---------------------------------------------------------------------------
(* Degree-statistics extractor                                             *)

get_Nk_and_IC_as_arrays(g, rho, SIR) ==
    IF ~Resolves("Counter") THEN Raised("NameError")   \* Counter(...), line 81
    ELSE IF g.nodes = {} THEN Raised("ValueError")   \* max() of an empty sequence
    ELSE
    LET maxk == SetMax(degree_values(g))
        Nk   == [k \in 0 .. maxk |-> degree_count(g, k)]
        Sk0  == ScaleArr(Sub(One, rho), Nk)
        Ik0  == ScaleArr(rho, Nk)
        Rk0  == ScaleArr(Zero, Nk)
    IN  IF SIR THEN Returned(<<Nk, Sk0, Ik0, Rk0>>)
        ELSE Returned(<<Nk, Sk0, Ik0>>)

\* the same loop without the second increment
RECURSIVE CountPairsOneWay(_, _, _, _)
CountPairsOneWay(g, Ks, M, todo) ==
    IF todo = {} THEN M
    ELSE LET e  == CHOOSE x \in todo : TRUE
             k  == IndexOf(Ks, degree(g, e[1]))
             l  == IndexOf(Ks, degree(g, e[2]))
         IN  CountPairsOneWay(g, Ks, [M EXCEPT ![k][l] = @ + 1], todo \ {e})

\* the loop over G.edges(): both (k,l) and (l,k) are incremented
RECURSIVE CountPairs(_, _, _, _)
CountPairs(g, Ks, M, todo) ==
    IF todo = {} THEN M
    ELSE LET e  == CHOOSE x \in todo : TRUE
             k  == IndexOf(Ks, degree(g, e[1]))
             l  == IndexOf(Ks, degree(g, e[2]))
             M1 == [M  EXCEPT ![k][l] = @ + 1]
             M2 == [M1 EXCEPT ![l][k] = @ + 1]
         IN  CountPairs(g, Ks, M2, todo \ {e})

get_NkNl_and_IC_as_arrays(g, rho, withKs, SIR) ==
    IF ~withKs /\ g.nodes = {} THEN Raised("ValueError")
    ELSE
    LET Ks      == Sorted(degree_values(g))
        klength == IF withKs THEN Len0(Ks) ELSE SetMax(degree_values(g)) + 1
        zeros   == [i \in 0 .. klength - 1 |-> [j \in 0 .. klength - 1 |-> 0]]
    IN  \* without withKs the name Ks is never bound, and the loop body reads it
        IF ~withKs /\ edges(g) # {} THEN Raised("UnboundLocalError")
        ELSE
        LET NkNl  == CountPairs(g, Ks, zeros, edges(g))
            SkSl0 == ScaleMat(Mul(Sub(One, rho), Sub(One, rho)), NkNl)
            SkIl0 == ScaleMat(Mul(Sub(One, rho), rho), NkNl)
            IkIl0 == ScaleMat(Mul(rho, rho), NkNl)
        IN  IF withKs
            THEN IF SIR THEN Returned(<<NkNl, SkSl0, SkIl0, Ks>>)
                 ELSE Returned(<<NkNl, SkSl0, SkIl0, IkIl0, Ks>>)
            ELSE IF SIR THEN Returned(<<NkNl, SkSl0, SkIl0>>)
                 ELSE Returned(<<NkNl, SkSl0, SkIl0, IkIl0>>)

---------------------------------------------------------------------------
(* Specification SpecDegree: the extractor applied to every small graph    *)

Rhos == { Zero, Frac(1, 2), One }

NoVec == Empty0
\* before integrate.ode(...) has made one
NoStepper == [t |-> Zero, y |-> Empty0, integrated |-> <<>>, calls |-> <<>>]
\* before any returned function was called
NoApplication == [f |-> "none", at |-> <<>>, exc |-> "none", val |-> <<>>]

InitDegree ==
    /\ G \in Graphs
    /\ fn = "none" /\ args = <<>> /\ pc = "ready"
    /\ V0 = NoVec /\ V = <<>> /\ ncalls = 0 /\ its = 0 /\ theta = Zero
    /\ out = Raised("none")
    /\ stepper = NoStepper
    /\ applied = NoApplication

Call_get_Nk ==
    /\ pc = "ready"
    /\ \E rho \in Rhos, SIR \in BOOLEAN :
        /\ fn' = "get_Nk_and_IC_as_arrays"
        /\ args' = [rho |-> rho, SIR |-> SIR]
        /\ out' = get_Nk_and_IC_as_arrays(G, rho, SIR)
    /\ pc' = IF out'.exc = "none" THEN "returned" ELSE "raised"
    /\ UNCHANGED <<applied, stepper, G, V0, V, ncalls, its, theta>>

Call_get_NkNl ==
    /\ pc = "ready"
    /\ \E rho \in Rhos, withKs \in BOOLEAN, SIR \in BOOLEAN :
        /\ fn' = "get_NkNl_and_IC_as_arrays"
        /\ args' = [rho |-> rho, withKs |-> withKs, SIR |-> SIR]
        /\ out' = get_NkNl_and_IC_as_arrays(G, rho, withKs, SIR)
    /\ pc' = IF out'.exc = "none" THEN "returned" ELSE "raised"
    /\ UNCHANGED <<applied, stepper, G, V0, V, ncalls, its, theta>>

NextDegree == Call_get_Nk \/ Call_get_NkNl

SpecDegree == InitDegree /\ [][NextDegree]_vars

---------------------------------------------------------------------------
(* Rate-function factory (src/EoN/__init__.py)                             *)

\* simple graphs carrying an edge attribute and a node attribute
WeightedGraphs(lo, hi) ==
    UNION { { [nodes |-> 1 .. n, edges |-> E,
               ew |-> [e \in E |-> Num(1 + (SetMin(e) % 2))],
               nw |-> [u \in 1 .. n |-> Num(1 + u)]] :
                E \in SUBSET { e \in SUBSET (1 .. n) : Cardinality(e) = 2 } }
            : n \in lo .. hi }

\* the closures _get_rate_functions returns, as the record they close over
_get_rate_functions(tau, gamma, transmission_weight, recovery_weight) ==
    [tau |-> tau, gamma |-> gamma, tw |-> transmission_weight, rw |-> recovery_weight]

\* G.edge[x][y][label] raises KeyError when (x,y) is no edge
trans_defined(g, r, x, y) == r.tw = "none" \/ {x, y} \in g.edges
trans_rate_fxn(g, r, x, y) ==
    IF r.tw = "none" THEN r.tau ELSE Mul(r.tau, g.ew[{x, y}])
\* rec_rate_fxn, had it been chosen by the transmission label
rec_rate_fxn_by_transmission_label(g, r, x) ==
    IF r.tw = "none" THEN r.gamma ELSE Mul(r.gamma, g.nw[x])
rec_rate_fxn(g, r, x) ==
    IF r.rw = "none" THEN r.gamma ELSE Mul(r.gamma, g.nw[x])

---------------------------------------------------------------------------
(* Specification SpecRates: a call of _get_rate_functions, then calls of   *)
(* the two functions it returned                                           *)

InitRates ==
    /\ G \in WeightedGraphs(1, MaxNodes)
    /\ fn = "none" /\ args = <<>> /\ pc = "ready"
    /\ V0 = NoVec /\ V = <<>> /\ ncalls = 0 /\ its = 0 /\ theta = Zero
    /\ out = Raised("none")
    /\ stepper = NoStepper
    /\ applied = NoApplication

Call__get_rate_functions ==
    /\ pc = "ready"
    /\ \E tau \in { One, Num(2) }, gamma \in { One, Num(3) } :
       \E tw \in { "none", "weight" }, rw \in { "none", "weight" } :
        /\ fn' = "_get_rate_functions"
        /\ args' = [G |-> G, tau |-> tau, gamma |-> gamma, transmission_weight |-> tw,
                    recovery_weight |-> rw]
        /\ out' = Returned(_get_rate_functions(tau, gamma, tw, rw))
        /\ pc' = "returned"
    /\ UNCHANGED <<applied, stepper, G, V0, V, ncalls, its, theta>>

Call_trans_rate_fxn ==
    /\ pc = "returned" /\ fn = "_get_rate_functions"
    /\ \E x \in G.nodes, y \in G.nodes :
        applied' = [f |-> "trans_rate_fxn", at |-> <<x, y>>] @@
                   (IF trans_defined(G, out.val, x, y)
                    THEN Returned(trans_rate_fxn(G, out.val, x, y))
                    ELSE Raised("KeyError"))
    /\ UNCHANGED <<stepper, G, fn, args, pc, V0, V, ncalls, its, theta, out>>

Call_rec_rate_fxn ==
    /\ pc = "returned" /\ fn = "_get_rate_functions"
    /\ \E x \in G.nodes :
        applied' = [f |-> "rec_rate_fxn", at |-> <<x>>] @@
                   Returned(rec_rate_fxn(G, out.val, x))
    /\ UNCHANGED <<stepper, G, fn, args, pc, V0, V, ncalls, its, theta, out>>

NextRates ==
    \/ Call__get_rate_functions
    \/ Call_trans_rate_fxn
    \/ Call_rec_rate_fxn

SpecRates == InitRates /\ [][NextRates]_vars

---------------------------------------------------------------------------
(* Helpers shared by the derivative evaluators                             *)

SumSet(S, F(_)) == SumOver([x \in S |-> F(x)], S)
Mul3(a, b, c) == Mul(Mul(a, b), c)
Mul4(a, b, c, e) == Mul(Mul(Mul(a, b), c), e)
\* a.shape = (r, c) on a flat array, row-major
Reshape(a, r, c) == [i \in 0 .. r - 1 |-> [j \in 0 .. c - 1 |-> a[i * c + j]]]
\* M.shape = (r*c, 1) followed by concatenation
Flatten(M, r, c) == [x \in 0 .. r * c - 1 |-> M[x \div c][x % c]]
Transpose(M, r, c) == [j \in 0 .. c - 1 |-> [i \in 0 .. r - 1 |-> M[i][j]]]
AllDefined(a) == \A i \in DOMAIN a : Defined(a[i])
\* [1/v if v != 0 else 0 for v in X]
Inv(a) == [i \in DOMAIN a |-> IF a[i] # Zero THEN Div(One, a[i]) ELSE Zero]
Vec(s) == [i \in 0 .. Len(s) - 1 |-> s[i + 1]]

---------------------------------------------------------------------------
(* Homogeneous pairwise evaluators                                         *)

\* tau*nm1_over_n*SI*(SS-SI)/S   and   tau*nm1_over_n*SI*SS/S
hp_closure(tau, n, SI, W, S) ==
    Div(Mul(Mul3(tau, Div(Sub(n, One), n), SI), W), S)

_dSIS_homogeneous_pairwise_(X, N, n, tau, gamma) ==
    LET S  == X[0]
        SI == X[1]
        SS == X[2]
        I  == Sub(N, S)
        II == Sub(Sub(Mul(N, n), SS), Mul(Num(2), SI))
        dSdt  == Sub(Mul(gamma, I), Mul(tau, SI))
        dSIdt == Sub(Add(Mul(gamma, Sub(II, SI)),
                         hp_closure(tau, n, SI, Sub(SS, SI), S)),
                     Mul(tau, SI))
        dSSdt == Sub(Mul3(Num(2), gamma, SI),
                     Mul(Num(2), hp_closure(tau, n, SI, SS, S)))
    IN  Vec(<<dSdt, dSIdt, dSSdt>>)

_dSIR_homogeneous_pairwise_(X, n, tau, gamma) ==
    LET S  == X[0]
        I  == X[1]
        SI == X[2]
        SS == X[3]
        dSdt  == Neg(Mul(tau, SI))
        dIdt  == Sub(Mul(tau, SI), Mul(gamma, I))
        dSIdt == Sub(Add(Neg(Mul(gamma, SI)),
                         hp_closure(tau, n, SI, Sub(SS, SI), S)),
                     Mul(tau, SI))
        dSSdt == Neg(Mul(Num(2), hp_closure(tau, n, SI, SS, S)))
    IN  Vec(<<dSdt, dIdt, dSIdt, dSSdt>>)

---------------------------------------------------------------------------
(* Pair-based evaluators.  nodelist is an array of the nodes; position i   *)
(* of every section of the flat vector belongs to node nodelist[i].        *)

index_of_node(nodelist, u) == IndexOf(nodelist, u)

\* the state of _dSIS_pair_based_: V = [Y(N), XY(N*N), XX(N*N)]
SISpb_state(Vv, N) ==
    LET Y  == Slice(Vv, 0, N)
        X  == [i \in DOMAIN Y |-> Sub(One, Y[i])]
        XY == Reshape(Slice(Vv, N, N + N * N), N, N)
        XX == Reshape(Slice(Vv, N + N * N, Len0(Vv)), N, N)
    IN  [X |-> X, Y |-> Y, Xinv |-> Inv(X), XY |-> XY, XX |-> XX,
         YX |-> Transpose(XY, N, N),
         YY |-> [i \in 0 .. N - 1 |-> [j \in 0 .. N - 1 |->
                    Sub(Sub(Sub(One, XY[i][j]), XX[i][j]), XY[j][i])]]]

\* the state of _dSIR_pair_based_: V = [X(N), Y(N), XY(N*N), XX(N*N)]
SIRpb_state(Vv, N) ==
    LET X  == Slice(Vv, 0, N)
        XY == Reshape(Slice(Vv, 2 * N, 2 * N + N * N), N, N)
    IN  [X |-> X, Y |-> Slice(Vv, N, 2 * N), Xinv |-> Inv(X), XY |-> XY,
         XX |-> Reshape(Slice(Vv, 2 * N + N * N, Len0(Vv)), N, N),
         YX |-> Transpose(XY, N, N)]

\* trans_rate_fxn(a,b) * P * Q * Xinv[c]: one triple-closure term
pb_triple(g, r, a, b, P, Q, inv) == Mul4(trans_rate_fxn(g, r, a, b), P, Q, inv)

\* the neighbours w the first triple sum of _dSIS_pair_based_ runs over
SISpb_first_sum(g, u, v) == neighbors(g, u) \ {v}

_dSIS_pair_based_(Vv, g, nodelist, r) ==
    LET N   == order(g)
        st  == SISpb_state(Vv, N)
        ix(u) == index_of_node(nodelist, u)
        dY  == [i \in 0 .. N - 1 |->
                 LET u == nodelist[i]
                 IN  Add(Neg(Mul(rec_rate_fxn(g, r, u), st.Y[i])),
                         SumSet(neighbors(g, u),
                                LAMBDA v : Mul(trans_rate_fxn(g, r, u, v), st.XY[i][ix(v)])))]
        dXY == [i \in 0 .. N - 1 |-> [j \in 0 .. N - 1 |->
                 LET u == nodelist[i]
                     v == nodelist[j]
                 IN  IF v \notin neighbors(g, u) THEN Zero
                     ELSE Add(Add(Neg(Mul(Add(trans_rate_fxn(g, r, u, v), rec_rate_fxn(g, r, v)),
                                          st.XY[i][j])),
                                  Mul(rec_rate_fxn(g, r, u), st.YY[i][j])),
                              Sub(SumSet(SISpb_first_sum(g, u, v), LAMBDA w :
                                      pb_triple(g, r, v, w, st.XX[i][j], st.XY[j][ix(w)], st.Xinv[j])),
                                  SumSet(neighbors(g, u) \ {v}, LAMBDA w :
                                      pb_triple(g, r, u, w, st.YX[ix(w)][i], st.XY[i][j], st.Xinv[i]))))]]
        dXX == [i \in 0 .. N - 1 |-> [j \in 0 .. N - 1 |->
                 LET u == nodelist[i]
                     v == nodelist[j]
                 IN  IF v \notin neighbors(g, u) THEN Zero
                     ELSE Sub(Sub(Add(Mul(rec_rate_fxn(g, r, u), st.YX[i][j]),
                                      Mul(rec_rate_fxn(g, r, v), st.XY[i][j])),
                                  SumSet(SISpb_first_sum(g, u, v), LAMBDA w :
                                      pb_triple(g, r, v, w, st.XX[i][j], st.XY[j][ix(w)], st.Xinv[j]))),
                              SumSet(neighbors(g, u) \ {v}, LAMBDA w :
                                  pb_triple(g, r, u, w, st.YX[ix(w)][i], st.XX[i][j], st.Xinv[i])))]]
    IN  IF \E u \in g.nodes : \E v \in neighbors(g, u) :
             \E w \in SISpb_first_sum(g, u, v) : ~trans_defined(g, r, v, w)
        THEN Raised("KeyError")
        ELSE Returned(Concat(dY, Concat(Flatten(dXY, N, N), Flatten(dXX, N, N))))

_dSIR_pair_based_(Vv, g, nodelist, r) ==
    LET N   == order(g)
        st  == SIRpb_state(Vv, N)
        ix(u) == index_of_node(nodelist, u)
        inflow(i) == SumSet(neighbors(g, nodelist[i]), LAMBDA v :
                        Mul(trans_rate_fxn(g, r, nodelist[i], v), st.XY[i][ix(v)]))
        dX  == [i \in 0 .. N - 1 |-> Neg(inflow(i))]
        dY  == [i \in 0 .. N - 1 |->
                 Add(Neg(Mul(rec_rate_fxn(g, r, nodelist[i]), st.Y[i])), inflow(i))]
        dXY == [i \in 0 .. N - 1 |-> [j \in 0 .. N - 1 |->
                 LET u == nodelist[i]
                     v == nodelist[j]
                 IN  IF v \notin neighbors(g, u) THEN Zero
                     ELSE Add(Neg(Mul(Add(trans_rate_fxn(g, r, u, v), rec_rate_fxn(g, r, v)),
                                      st.XY[i][j])),
                              Sub(SumSet(neighbors(g, v) \ {u}, LAMBDA w :
                                      pb_triple(g, r, v, w, st.XX[i][j], st.XY[j][ix(w)], st.Xinv[j])),
                                  SumSet(neighbors(g, u) \ {v}, LAMBDA w :
                                      pb_triple(g, r, u, w, st.YX[ix(w)][i], st.XY[i][j], st.Xinv[i]))))]]
        dXX == [i \in 0 .. N - 1 |-> [j \in 0 .. N - 1 |->
                 LET u == nodelist[i]
                     v == nodelist[j]
                 IN  IF v \notin neighbors(g, u) THEN Zero
                     ELSE Sub(Neg(SumSet(neighbors(g, v) \ {u}, LAMBDA w :
                                      pb_triple(g, r, v, w, st.XX[i][j], st.XY[j][ix(w)], st.Xinv[j]))),
                              SumSet(neighbors(g, u) \ {v}, LAMBDA w :
                                  pb_triple(g, r, u, w, st.YX[ix(w)][i], st.XX[i][j], st.Xinv[i])))]]
    IN  Returned(Concat(dX, Concat(dY, Concat(Flatten(dXY, N, N), Flatten(dXX, N, N)))))

\* _dSIR_pair_based2_: V = [X(N), Y(N), XY(E), YX(E), XX(E)], one entry per
\* edge of edgelist (an array of ordered pairs)
SIRpb2_state(Vv, N, E) ==
    LET X == Slice(Vv, 0, N)
    IN  [X |-> X, Y |-> Slice(Vv, N, 2 * N), Xinv |-> Inv(X),
         XY |-> Slice(Vv, 2 * N, 2 * N + E),
         YX |-> Slice(Vv, 2 * N + E, 2 * N + 2 * E),
         XX |-> Slice(Vv, 2 * N + 2 * E, Len0(Vv))]

has_key(edgelist, e) == \E x \in DOMAIN edgelist : edgelist[x] = e
my_XY(st, edgelist, u, v) ==
    IF has_key(edgelist, <<u, v>>) THEN st.XY[IndexOf(edgelist, <<u, v>>)]
    ELSE st.YX[IndexOf(edgelist, <<v, u>>)]
my_YX(st, edgelist, u, v) == my_XY(st, edgelist, v, u)
my_XX(st, edgelist, u, v) ==
    IF has_key(edgelist, <<u, v>>) THEN st.XX[IndexOf(edgelist, <<u, v>>)]
    ELSE st.XX[IndexOf(edgelist, <<v, u>>)]

_dSIR_pair_based2_(Vv, g, nodelist, edgelist, r) ==
    LET N   == Len0(nodelist)
        E   == Len0(edgelist)
        st  == SIRpb2_state(Vv, N, E)
        ix(u) == index_of_node(nodelist, u)
        xy(a, b) == my_XY(st, edgelist, a, b)
        yx(a, b) == my_YX(st, edgelist, a, b)
        xx(a, b) == my_XX(st, edgelist, a, b)
        from(i) == { e \in DOMAIN edgelist : ix(edgelist[e][1]) = i }
        into(i) == { e \in DOMAIN edgelist : ix(edgelist[e][2]) = i }
        tr(e) == trans_rate_fxn(g, r, edgelist[e][1], edgelist[e][2])
        gain(i) == Add(SumSet(from(i), LAMBDA e : Mul(tr(e), st.XY[e])),
                       SumSet(into(i), LAMBDA e : Mul(tr(e), st.YX[e])))
        dX  == [i \in 0 .. N - 1 |-> Neg(gain(i))]
        dY  == [i \in 0 .. N - 1 |->
                 Add(Neg(Mul(rec_rate_fxn(g, r, nodelist[i]), st.Y[i])), gain(i))]
        pure(e) == Add(tr(e), rec_rate_fxn(g, r, edgelist[e][2]))
        dXY == [e \in 0 .. E - 1 |->
                 LET u == edgelist[e][1]
                     v == edgelist[e][2]
                 IN  Add(Neg(Mul(pure(e), st.XY[e])),
                         Sub(SumSet(neighbors(g, v) \ {u}, LAMBDA w :
                                 pb_triple(g, r, w, v, xx(u, v), xy(v, w), st.Xinv[ix(v)])),
                             SumSet(neighbors(g, u) \ {v}, LAMBDA w :
                                 pb_triple(g, r, w, u, yx(w, u), xy(u, v), st.Xinv[ix(u)]))))]
        dYX == [e \in 0 .. E - 1 |->
                 LET u == edgelist[e][1]
                     v == edgelist[e][2]
                 IN  Add(Neg(Mul(pure(e), st.YX[e])),
                         Sub(SumSet(neighbors(g, u) \ {v}, LAMBDA w :
                                 pb_triple(g, r, w, u, xx(v, u), xy(u, w), st.Xinv[ix(u)])),
                             SumSet(neighbors(g, v) \ {u}, LAMBDA w :
                                 pb_triple(g, r, w, v, xy(v, w), yx(u, v), st.Xinv[ix(v)]))))]
        dXX == [e \in 0 .. E - 1 |->
                 LET u == edgelist[e][1]
                     v == edgelist[e][2]
                 IN  Sub(Neg(SumSet(neighbors(g, u) \ {v}, LAMBDA w :
                                 pb_triple(g, r, w, u, xx(u, v), xy(u, w), st.Xinv[ix(u)]))),
                         SumSet(neighbors(g, v) \ {u}, LAMBDA w :
                             pb_triple(g, r, w, v, xx(u, v), xy(v, w), st.Xinv[ix(v)])))]
    IN  Returned(Concat(dX, Concat(dY, Concat(dXY, Concat(dYX, dXX)))))

---------------------------------------------------------------------------
(* Heterogeneous pairwise evaluators.  Ks is the array of degrees; entry   *)
(* i of every per-degree section belongs to degree Ks[i].                  *)

\* tmpSk = 1.*Sk; tmpSk[tmpSk==0] = 1
tmpSk_of(Sk) == [i \in DOMAIN Sk |-> IF Sk[i] = Zero THEN One ELSE Sk[i]]

\* P * (k-1) * Q / (k * tmpS): [A S_k I] closed through a degree-k class
het_triple(P, k, Q, tmpS) == Div(Mul3(P, Num(k - 1), Q), Mul(Num(k), tmpS))

RowSums(M, n) == [i \in 0 .. n - 1 |-> SumArr(M[i])]

\* the closure matrices both heterogeneous evaluators build
het_closures(Sk, SkSl, SkIl, Ks) ==
    LET kcount == Len0(Ks)
        SkI    == RowSums(SkIl, kcount)
        tmpSk  == tmpSk_of(Sk)
        SkSlI  == [k \in 0 .. kcount - 1 |-> [l \in 0 .. kcount - 1 |->
                     het_triple(SkSl[k][l], Ks[l], SkI[l], tmpSk[l])]]
        ISkIl  == [k \in 0 .. kcount - 1 |-> [l \in 0 .. kcount - 1 |->
                     het_triple(SkI[k], Ks[k], SkIl[k][l], tmpSk[k])]]
    IN  [SkI |-> SkI, SkSlI |-> SkSlI, ISkIl |-> ISkIl,
         ISkSl |-> Transpose(SkSlI, kcount, kcount),
         IkSlI |-> Transpose(ISkIl, kcount, kcount)]

_dSIS_heterogeneous_pairwise_(X, Nk, NkNl, tau, gamma, Ks) ==
    LET kcount == Len0(Ks)
        Sk   == Slice(X, 0, kcount)
        SkSl == Reshape(Slice(X, kcount, kcount + kcount * kcount), kcount, kcount)
        SkIl == Reshape(Slice(X, kcount + kcount * kcount, kcount + 2 * kcount * kcount),
                        kcount, kcount)
        Ik   == [i \in 0 .. kcount - 1 |-> Sub(Nk[i], Sk[i])]
        c    == het_closures(Sk, SkSl, SkIl, Ks)
        IkSl == Transpose(SkIl, kcount, kcount)
        IkIl == [i \in 0 .. kcount - 1 |-> [j \in 0 .. kcount - 1 |->
                   Sub(Sub(Sub(NkNl[i][j], SkSl[i][j]), SkIl[i][j]), IkSl[i][j])]]
        dSk   == [i \in 0 .. kcount - 1 |-> Sub(Mul(gamma, Ik[i]), Mul(tau, c.SkI[i]))]
        dSkSl == [i \in 0 .. kcount - 1 |-> [j \in 0 .. kcount - 1 |->
                   Sub(Mul(gamma, Add(SkIl[i][j], IkSl[i][j])),
                       Mul(tau, Add(c.SkSlI[i][j], c.ISkSl[i][j])))]]
        dSkIl == [i \in 0 .. kcount - 1 |-> [j \in 0 .. kcount - 1 |->
                   Add(Mul(gamma, Sub(IkIl[i][j], SkIl[i][j])),
                       Mul(tau, Sub(Sub(c.SkSlI[i][j], c.ISkIl[i][j]), SkIl[i][j])))]]
    IN  Concat(dSk, Concat(Flatten(dSkSl, kcount, kcount), Flatten(dSkIl, kcount, kcount)))

_dSIR_heterogeneous_pairwise_(X, tau, gamma, Nk, Ks) ==
    LET kcount == Len0(Ks)
        Sk   == Slice(X, 0, kcount)
        Ik   == Slice(X, kcount, 2 * kcount)
        SkSl == Reshape(Slice(X, 2 * kcount, 2 * kcount + kcount * kcount), kcount, kcount)
        SkIl == Reshape(Slice(X, 2 * kcount + kcount * kcount, 2 * kcount + 2 * kcount * kcount),
                        kcount, kcount)
        c    == het_closures(Sk, SkSl, SkIl, Ks)
        dSk   == [i \in 0 .. kcount - 1 |-> Neg(Mul(tau, c.SkI[i]))]
        dIk   == [i \in 0 .. kcount - 1 |-> Sub(Mul(tau, c.SkI[i]), Mul(gamma, Ik[i]))]
        dSkIl == [i \in 0 .. kcount - 1 |-> [j \in 0 .. kcount - 1 |->
                   Add(Neg(Mul(gamma, SkIl[i][j])),
                       Mul(tau, Sub(Sub(c.SkSlI[i][j], c.ISkIl[i][j]), SkIl[i][j])))]]
        dSkSl == [i \in 0 .. kcount - 1 |-> [j \in 0 .. kcount - 1 |->
                   Neg(Mul(tau, Add(c.SkSlI[i][j], c.ISkSl[i][j])))]]
    IN  Concat(dSk, Concat(dIk,
            Concat(Flatten(dSkSl, kcount, kcount), Flatten(dSkIl, kcount, kcount))))

---------------------------------------------------------------------------
(* Specification SpecClosure: the derivative evaluators applied to         *)
(* synthetic states, compartments forced to exactly 0 included             *)

MaxPairNodes == 3
MaxDeg == 3
MaxClasses == 2

\* list(G.edges()) for nodes inserted in increasing order
RECURSIVE PairList(_)
PairList(S) ==
    IF S = {} THEN <<>>
    ELSE LET e == CHOOSE x \in S : \A y \in S :
                      x[1] < y[1] \/ (x[1] = y[1] /\ x[2] <= y[2])
         IN  <<e>> \o PairList(S \ {e})
edgelist_of(g) == Vec(PairList(edges(g)))
nodelist_of(g) == Sorted(g.nodes)

Fill(len, x) == [i \in 0 .. len - 1 |-> x]
Labels == { "none", "weight" }
\* sorted lists of at most MaxClasses distinct degrees
DegreeLists ==
    { Sorted(S) : S \in { T \in SUBSET (0 .. MaxDeg) :
                            T # {} /\ Cardinality(T) <= MaxClasses } }

InitClosure ==
    /\ G \in WeightedGraphs(1, MaxPairNodes)
    /\ fn = "none" /\ args = <<>> /\ pc = "ready"
    /\ V0 = NoVec /\ V = <<>> /\ ncalls = 0 /\ its = 0 /\ theta = Zero
    /\ out = Raised("none")
    /\ stepper = NoStepper
    /\ applied = NoApplication

Finish == pc' = IF out'.exc = "none" THEN "returned" ELSE "raised"

Eval_SIS_homogeneous_pairwise ==
    /\ pc = "ready"
    /\ \E X \in [0 .. 2 -> { Zero, One, Num(2) }], tau \in { One, Num(2) } :
        /\ fn' = "_dSIS_homogeneous_pairwise_"
        /\ args' = [X |-> X, N |-> Num(2), n |-> Num(2), tau |-> tau, gamma |-> One]
        /\ out' = Returned(_dSIS_homogeneous_pairwise_(X, Num(2), Num(2), tau, One))
    /\ Finish
    /\ UNCHANGED <<applied, stepper, G, V0, V, ncalls, its, theta>>

Eval_SIR_homogeneous_pairwise ==
    /\ pc = "ready"
    /\ \E X \in [0 .. 3 -> { Zero, One }], tau \in { One, Num(2) } :
        /\ fn' = "_dSIR_homogeneous_pairwise_"
        /\ args' = [X |-> X, n |-> Num(2), tau |-> tau, gamma |-> One]
        /\ out' = Returned(_dSIR_homogeneous_pairwise_(X, Num(2), tau, One))
    /\ Finish
    /\ UNCHANGED <<applied, stepper, G, V0, V, ncalls, its, theta>>

Eval_SIS_pair_based ==
    /\ pc = "ready"
    /\ \E Y \in [0 .. order(G) - 1 -> { Zero, One }], tw \in Labels, rw \in Labels :
        LET N  == order(G)
            Vv == Concat(Y, Fill(2 * N * N, Frac(1, 2)))
            r  == _get_rate_functions(One, One, tw, rw)
        IN  /\ fn' = "_dSIS_pair_based_"
            /\ args' = [V |-> Vv, nodelist |-> nodelist_of(G), r |-> r]
            /\ out' = _dSIS_pair_based_(Vv, G, nodelist_of(G), r)
    /\ Finish
    /\ UNCHANGED <<applied, stepper, G, V0, V, ncalls, its, theta>>

Eval_SIR_pair_based ==
    /\ pc = "ready"
    /\ \E X \in [0 .. order(G) - 1 -> { Zero, One }], tw \in Labels, rw \in Labels :
        LET N  == order(G)
            Vv == Concat(X, Fill(N + 2 * N * N, Frac(1, 2)))
            r  == _get_rate_functions(One, One, tw, rw)
        IN  /\ fn' = "_dSIR_pair_based_"
            /\ args' = [V |-> Vv, nodelist |-> nodelist_of(G), r |-> r]
            /\ out' = _dSIR_pair_based_(Vv, G, nodelist_of(G), r)
    /\ Finish
    /\ UNCHANGED <<applied, stepper, G, V0, V, ncalls, its, theta>>

Eval_SIR_pair_based2 ==
    /\ pc = "ready"
    /\ \E X \in [0 .. order(G) - 1 -> { Zero, One }], tw \in Labels, rw \in Labels :
        LET N  == order(G)
            el == edgelist_of(G)
            Vv == Concat(X, Fill(N + 3 * Len0(el), Frac(1, 2)))
            r  == _get_rate_functions(One, One, tw, rw)
        IN  /\ fn' = "_dSIR_pair_based2_"
            /\ args' = [V |-> Vv, nodelist |-> nodelist_of(G), edgelist |-> el, r |-> r]
            /\ out' = _dSIR_pair_based2_(Vv, G, nodelist_of(G), el, r)
    /\ Finish
    /\ UNCHANGED <<applied, stepper, G, V0, V, ncalls, its, theta>>

Eval_SIS_heterogeneous_pairwise ==
    /\ pc = "ready"
    /\ \E Ks \in DegreeLists, c \in { Zero, One } :
       \E Sk \in [DOMAIN Ks -> { Zero, One }] :
        LET kcount == Len0(Ks)
            X    == Concat(Sk, Concat(Fill(kcount * kcount, One), Fill(kcount * kcount, c)))
            Nk   == Fill(kcount, Num(2))
            NkNl == Reshape(Fill(kcount * kcount, Num(4)), kcount, kcount)
        IN  /\ fn' = "_dSIS_heterogeneous_pairwise_"
            /\ args' = [X |-> X, Ks |-> Ks, tau |-> One, gamma |-> One]
            /\ out' = Returned(_dSIS_heterogeneous_pairwise_(X, Nk, NkNl, One, One, Ks))
    /\ Finish
    /\ UNCHANGED <<applied, stepper, G, V0, V, ncalls, its, theta>>

Eval_SIR_heterogeneous_pairwise ==
    /\ pc = "ready"
    /\ \E Ks \in DegreeLists, c \in { Zero, One } :
       \E Sk \in [DOMAIN Ks -> { Zero, One }] :
        LET kcount == Len0(Ks)
            X    == Concat(Sk, Concat(Fill(kcount, One),
                        Concat(Fill(kcount * kcount, One), Fill(kcount * kcount, c))))
        IN  /\ fn' = "_dSIR_heterogeneous_pairwise_"
            /\ args' = [X |-> X, Ks |-> Ks, tau |-> One, gamma |-> One]
            /\ out' = Returned(_dSIR_heterogeneous_pairwise_(X, One, One, Fill(kcount, Num(2)), Ks))
    /\ Finish
    /\ UNCHANGED <<applied, stepper, G, V0, V, ncalls, its, theta>>

NextClosure ==
    \/ Eval_SIS_homogeneous_pairwise
    \/ Eval_SIR_homogeneous_pairwise
    \/ Eval_SIS_pair_based
    \/ Eval_SIR_pair_based
    \/ Eval_SIR_pair_based2
    \/ Eval_SIS_heterogeneous_pairwise
    \/ Eval_SIR_heterogeneous_pairwise

SpecClosure == InitClosure /\ [][NextClosure]_vars

---------------------------------------------------------------------------
(* Effective degree evaluators.  original_shape = (rows, cols); cell (s,i) *)
(* of the lattice is Ssi[s][i].                                            *)

Cells(original_shape) ==
    (0 .. original_shape[0] - 1) \X (0 .. original_shape[1] - 1)

\* the subscript an evaluator reads for a neighbour cell, or NoIndex when
\* its boundary condition assigns 0 without reading
NoIndex == <<>>

SIS_sm1ip1_index_unguarded(s, i, original_shape) ==
    IF i + 1 = original_shape[1] THEN NoIndex ELSE <<s - 1, i + 1>>
SIS_sm1ip1_index(s, i, original_shape) ==
    IF s = 0 \/ i + 1 = original_shape[1] THEN NoIndex ELSE <<s - 1, i + 1>>
\* the neighbour below read in the same column
SIS_sp1im1_index_same_column(s, i, original_shape) ==
    IF i = 0 \/ s + 1 = original_shape[0] THEN NoIndex ELSE <<s + 1, i>>
SIS_sp1im1_index(s, i, original_shape) ==
    IF i = 0 \/ s + 1 = original_shape[0] THEN NoIndex ELSE <<s + 1, i - 1>>
SIR_sip1_index(s, i, original_shape) ==
    IF i + 1 = original_shape[1] THEN NoIndex ELSE <<s, i + 1>>
SIR_sp1im1_index(s, i, original_shape) ==
    IF s + 1 = original_shape[0] \/ i = 0 THEN NoIndex ELSE <<s + 1, i - 1>>

\* numpy subscripting M[a,b]: an index in -len .. -1 counts from the end,
\* anything outside -len .. len-1 raises IndexError
IndexInRange(ix, original_shape) ==
    ix = NoIndex \/ (/\ -original_shape[0] <= ix[1] /\ ix[1] < original_shape[0]
                     /\ -original_shape[1] <= ix[2] /\ ix[2] < original_shape[1])
Fetch(M, ix, original_shape) ==
    IF ix = NoIndex THEN Zero
    ELSE M[ix[1] % original_shape[0]][ix[2] % original_shape[1]]

\* sum over the lattice of w(s,i)*Ssi[s,i], the weights given as a table
Moment(Ssi, original_shape, w) ==
    SumOver([c \in Cells(original_shape) |-> Mul(Num(w[c]), Ssi[c[1]][c[2]])],
            Cells(original_shape))

\* the derivative of the SIS lattice, given the neighbour values per cell
dSIS_effective_degree_cells(Ssi, Isi, Ssm1ip1, Ism1ip1, Ssp1im1, Isp1im1, original_shape, tau, gamma) ==
    LET C   == Cells(original_shape)
        ISS == Moment(Ssi, original_shape, [c \in C |-> c[2] * c[1]])
        SS  == Moment(Ssi, original_shape, [c \in C |-> c[1]])
        ISI == Moment(Ssi, original_shape, [c \in C |-> c[2] * (c[2] - 1)])
        SI  == Moment(Ssi, original_shape, [c \in C |-> c[2]])
        dSsi == [s \in 0 .. original_shape[0] - 1 |-> [i \in 0 .. original_shape[1] - 1 |->
                  Add(Add(Add(Neg(Mul3(tau, Num(i), Ssi[s][i])), Mul(gamma, Isi[s][i])),
                          Mul(gamma, Sub(Mul(Num(i + 1), Ssm1ip1[s][i]),
                                         Mul(Num(i), Ssi[s][i])))),
                      Div(Mul3(tau, ISS, Sub(Mul(Num(s + 1), Ssp1im1[s][i]),
                                             Mul(Num(s), Ssi[s][i]))), SS))]]
        dIsi == [s \in 0 .. original_shape[0] - 1 |-> [i \in 0 .. original_shape[1] - 1 |->
                  Add(Add(Sub(Mul3(tau, Num(i), Ssi[s][i]), Mul(gamma, Isi[s][i])),
                          Mul(gamma, Sub(Mul(Num(i + 1), Ism1ip1[s][i]),
                                         Mul(Num(i), Isi[s][i])))),
                      Mul3(tau, Add(Div(ISI, SI), One),
                           Sub(Mul(Num(s + 1), Isp1im1[s][i]), Mul(Num(s), Isi[s][i]))))]]
    IN  Concat(Flatten(dSsi, original_shape[0], original_shape[1]),
               Flatten(dIsi, original_shape[0], original_shape[1]))

_dSIS_effective_degree_(X, original_shape, tau, gamma) ==
    LET ksq == original_shape[0] * original_shape[1]
        Ssi == Reshape(Slice(X, 0, ksq), original_shape[0], original_shape[1])
        Isi == Reshape(Slice(X, ksq, Len0(X)), original_shape[0], original_shape[1])
        up(M) == [s \in 0 .. original_shape[0] - 1 |-> [i \in 0 .. original_shape[1] - 1 |->
                    Fetch(M, SIS_sm1ip1_index(s, i, original_shape), original_shape)]]
        dn(M) == [s \in 0 .. original_shape[0] - 1 |-> [i \in 0 .. original_shape[1] - 1 |->
                    Fetch(M, SIS_sp1im1_index(s, i, original_shape), original_shape)]]
    IN  IF \E c \in Cells(original_shape) :
             \/ ~IndexInRange(SIS_sm1ip1_index(c[1], c[2], original_shape), original_shape)
             \/ ~IndexInRange(SIS_sp1im1_index(c[1], c[2], original_shape), original_shape)
        THEN Raised("IndexError")
        ELSE Returned(dSIS_effective_degree_cells(Ssi, Isi, up(Ssi), up(Isi), dn(Ssi), dn(Isi),
                                                  original_shape, tau, gamma))

\* the derivative of the SIR lattice and of R, given the neighbour values
dSIR_effective_degree_cells(Ssi, R, Ssip1, Ssp1im1, N, original_shape, tau, gamma) ==
    LET C   == Cells(original_shape)
        ISS == Moment(Ssi, original_shape, [c \in C |-> c[2] * c[1]])
        SS  == Moment(Ssi, original_shape, [c \in C |-> c[1]])
        dSsi == [s \in 0 .. original_shape[0] - 1 |-> [i \in 0 .. original_shape[1] - 1 |->
                  Add(Add(Neg(Mul3(tau, Num(i), Ssi[s][i])),
                          Mul(gamma, Sub(Mul(Num(i + 1), Ssip1[s][i]),
                                         Mul(Num(i), Ssi[s][i])))),
                      Div(Mul3(tau, ISS, Sub(Mul(Num(s + 1), Ssp1im1[s][i]),
                                             Mul(Num(s), Ssi[s][i]))), SS))]]
        S   == Moment(Ssi, original_shape, [c \in C |-> 1])
        dR  == Mul(gamma, Sub(Sub(N, S), R))
    IN  Concat(Flatten(dSsi, original_shape[0], original_shape[1]), Vec(<<dR>>))

_dSIR_effective_degree_(X, N, original_shape, tau, gamma) ==
    LET ksq == original_shape[0] * original_shape[1]
        R   == X[Len0(X) - 1]
        Ssi == Reshape(Slice(X, 0, Len0(X) - 1), original_shape[0], original_shape[1])
        Ssip1   == [s \in 0 .. original_shape[0] - 1 |-> [i \in 0 .. original_shape[1] - 1 |->
                      Fetch(Ssi, SIR_sip1_index(s, i, original_shape), original_shape)]]
        Ssp1im1 == [s \in 0 .. original_shape[0] - 1 |-> [i \in 0 .. original_shape[1] - 1 |->
                      Fetch(Ssi, SIR_sp1im1_index(s, i, original_shape), original_shape)]]
    IN  IF \E c \in Cells(original_shape) :
             \/ ~IndexInRange(SIR_sip1_index(c[1], c[2], original_shape), original_shape)
             \/ ~IndexInRange(SIR_sp1im1_index(c[1], c[2], original_shape), original_shape)
        THEN Raised("IndexError")
        ELSE Returned(dSIR_effective_degree_cells(Ssi, R, Ssip1, Ssp1im1, N,
                                                  original_shape, tau, gamma))

---------------------------------------------------------------------------
(* Specification SpecEffDeg: the effective degree evaluators on every      *)
(* small lattice                                                           *)

MaxSide == 2

NoGraph == [nodes |-> {}, edges |-> {}]
Shapes == { Vec(<<r, c>>) : r \in 1 .. MaxSide, c \in 1 .. MaxSide }
\* every 0/1 filling of a lattice, flattened
Lattices(original_shape) ==
    [0 .. original_shape[0] * original_shape[1] - 1 -> { Zero, One }]

InitEffDeg ==
    /\ G = NoGraph
    /\ fn = "none" /\ args = <<>> /\ pc = "ready"
    /\ V0 = NoVec /\ V = <<>> /\ ncalls = 0 /\ its = 0 /\ theta = Zero
    /\ out = Raised("none")
    /\ stepper = NoStepper
    /\ applied = NoApplication

Eval_SIS_effective_degree ==
    /\ pc = "ready"
    /\ \E original_shape \in Shapes, tau \in { One, Num(2) }, gamma \in { One, Num(2) } :
       \E S \in Lattices(original_shape), c \in { One, Num(2) } :
        LET X == Concat(S, [x \in DOMAIN S |-> Add(Mul(c, S[x]), Num(x + 1))])
        IN  /\ fn' = "_dSIS_effective_degree_"
            /\ args' = [X |-> X, original_shape |-> original_shape,
                        tau |-> tau, gamma |-> gamma]
            /\ out' = _dSIS_effective_degree_(X, original_shape, tau, gamma)
    /\ Finish
    /\ UNCHANGED <<applied, stepper, G, V0, V, ncalls, its, theta>>

Eval_SIR_effective_degree ==
    /\ pc = "ready"
    /\ \E original_shape \in Shapes, tau \in { One, Num(2) }, gamma \in { One, Num(2) } :
       \E S \in Lattices(original_shape), R \in { Zero, One } :
        LET X == Concat(S, Vec(<<R>>))
        IN  /\ fn' = "_dSIR_effective_degree_"
            /\ args' = [X |-> X, N |-> Num(8), original_shape |-> original_shape,
                        tau |-> tau, gamma |-> gamma]
            /\ out' = _dSIR_effective_degree_(X, Num(8), original_shape, tau, gamma)
    /\ Finish
    /\ UNCHANGED <<applied, stepper, G, V0, V, ncalls, its, theta>>

NextEffDeg == Eval_SIS_effective_degree \/ Eval_SIR_effective_degree

SpecEffDeg == InitEffDeg /\ [][NextEffDeg]_vars

---------------------------------------------------------------------------
(* Evaluators of the heterogeneous meanfield and compact pairwise systems  *)

\* ks.dot(a) with ks = scipy.arange(len(a))
KDot(a) == SumOver([k \in DOMAIN a |-> Mul(Num(k), a[k])], DOMAIN a)

_dSIS_heterogeneous_meanfield_(X, kcount, tau, gamma) ==
    LET S    == Slice(X, 0, kcount)
        I    == Slice(X, kcount, Len0(X))
        pi_I == Div(KDot(I), KDot([k \in DOMAIN I |-> Add(I[k], S[k])]))
        Sdot == [k \in 0 .. kcount - 1 |->
                   Sub(Mul(gamma, I[k]), Mul4(tau, Num(k), S[k], pi_I))]
        Idot == [k \in 0 .. kcount - 1 |->
                   Sub(Mul4(tau, Num(k), S[k], pi_I), Mul(gamma, I[k]))]
    IN  Concat(Sdot, Idot)

_dSIR_heterogeneous_meanfield_(X, S0, Nk, tau, gamma) ==
    LET th   == X[0]
        Rk   == Slice(X, 1, Len0(X))
        Sk   == [k \in DOMAIN Rk |-> Mul(S0[k], Pow(th, k))]
        Ik   == [k \in DOMAIN Rk |-> Sub(Sub(Nk[k], Sk[k]), Rk[k])]
        pi_I == Div(KDot(Ik), KDot(Nk))
        dRkdt    == [k \in DOMAIN Rk |-> Mul(gamma, Ik[k])]
        dThetadt == Neg(Mul3(tau, pi_I, th))
    IN  Concat(Vec(<<dThetadt>>), dRkdt)

_dSIR_compact_pairwise_(X, N, tau, gamma) ==
    LET len == Len0(X)
        SS  == X[len - 3]
        SI  == X[len - 2]
        R   == X[len - 1]
        Sk  == Slice(X, 0, len - 3)
        SX  == KDot(Sk)
        Q   == Div(SumOver([k \in DOMAIN Sk |-> Mul(Num(k * (k - 1)), Sk[k])], DOMAIN Sk),
                   Mul(SX, SX))
        I   == Sub(Sub(N, SumArr(Sk)), R)
        dSk == [k \in DOMAIN Sk |-> Div(Neg(Mul4(tau, Num(k), Sk[k], SI)), SX)]
        dSS == Neg(Mul4(Num(2), tau, SS, Mul(SI, Q)))
        dSI == Sub(Add(Neg(Mul(gamma, SI)), Mul4(tau, Sub(SS, SI), SI, Q)), Mul(tau, SI))
        dR  == Mul(gamma, I)
    IN  Concat(dSk, Vec(<<dSS, dSI, dR>>))

---------------------------------------------------------------------------
(* The drivers.  A call yields what it raised or returned, the vector V0   *)
(* it packed, the trajectory V it got back and the number of calls it made *)
(* to the integrator.                                                      *)

Outcome(r, v0, v, n) == [exc |-> r.exc, val |-> r.val, V0 |-> v0, V |-> v, ncalls |-> n]
\* the call ended before the initial vector was packed
Early(r) == Outcome(r, NoVec, <<>>, 0)

\* a call that assigned to the shape of arrays of its caller: arrays holds
\* those arrays as the caller finds them afterwards
OutcomeInPlace(r, v0, v, n, arrays) == Outcome(r, v0, v, n) @@ [arrays |-> arrays]

\* M.shape of a two-dimensional array
Shape(M) == <<Len0(M), IF Len0(M) = 0 THEN 0 ELSE Len0(M[0])>>

\* an array of the caller as an object: its shape and its data in memory
\* order; assigning to .shape changes the first and keeps the second
ArrayObject(M) == [shape |-> Shape(M), data |-> Flatten(M, Shape(M)[1], Shape(M)[2])]
SetShape(M, shape) == [ArrayObject(M) EXCEPT !.shape = shape]

\* scipy.linspace(tmin, tmax, tcount) with two report times
times == Vec(<<Zero, One>>)
\* integrate.odeint(f, y0, times): row 0 is y0; the later row is stood for
\* by one unit Euler step from y0, dy being f(y0)
odeint(y0, dy) == Vec(<<y0, [i \in DOMAIN y0 |-> Add(y0[i], dy[i])]>>)
\* X.T[k]: component k at every report time
Col(X, k) == [t \in DOMAIN X |-> X[t][k]]
\* X.T[lo:hi]
Cols(X, lo, hi) == [k \in 0 .. hi - lo - 1 |-> Col(X, lo + k)]
\* A.sum(axis=0) of an array of time series
SumAxis0(A, X) == [t \in DOMAIN X |-> SumOver([k \in DOMAIN A |-> A[k][t]], DOMAIN A)]

SIS_homogeneous_pairwise_stale_I(S0, I0, SI0, SS0, n, tau, gamma, return_full_data) ==
    LET N  == Add(S0, I0)
        X0 == Vec(<<S0, SI0, SS0>>)
        X  == odeint(X0, _dSIS_homogeneous_pairwise_(X0, N, n, tau, gamma))
        S  == Col(X, 0)
        SI == Col(X, 1)
        SS == Col(X, 2)
        I  == [t \in DOMAIN X |-> I0]
        II == [t \in DOMAIN X |-> Sub(Sub(Mul(N, n), SS[t]), Mul(Num(2), SI[t]))]
    IN  IF Gt(Add(SS0, Mul(SI0, Num(2))), Mul(n, N))
        THEN Early(RaiseNamed("EoNError"))
        ELSE Outcome(Returned(IF return_full_data THEN <<times, S, I, SI, SS, II>>
                              ELSE <<times, S, I>>), X0, X, 1)
SIS_homogeneous_pairwise(S0, I0, SI0, SS0, n, tau, gamma, return_full_data) ==
    LET N  == Add(S0, I0)
        X0 == Vec(<<S0, SI0, SS0>>)
        X  == odeint(X0, _dSIS_homogeneous_pairwise_(X0, N, n, tau, gamma))
        S  == Col(X, 0)
        SI == Col(X, 1)
        SS == Col(X, 2)
        I  == [t \in DOMAIN X |-> Sub(N, S[t])]
        II == [t \in DOMAIN X |-> Sub(Sub(Mul(N, n), SS[t]), Mul(Num(2), SI[t]))]
    IN  IF Gt(Add(SS0, Mul(SI0, Num(2))), Mul(n, N))
        THEN Early(RaiseNamed("EoNError"))
        ELSE Outcome(Returned(IF return_full_data THEN <<times, S, I, SI, SS, II>>
                              ELSE <<times, S, I>>), X0, X, 1)

SIR_homogeneous_pairwise(S0, I0, R0, SI0, SS0, n, tau, gamma, return_full_data) ==
    LET N  == Add(Add(S0, I0), R0)
        X0 == Vec(<<S0, I0, SI0, SS0>>)
        X  == odeint(X0, _dSIR_homogeneous_pairwise_(X0, n, tau, gamma))
        S  == Col(X, 0)
        I  == Col(X, 1)
        SI == Col(X, 2)
        SS == Col(X, 3)
        R  == [t \in DOMAIN X |-> Sub(Sub(N, S[t]), I[t])]
    IN  IF Gt(Add(SS0, Mul(Num(2), SI0)), Mul(n, N))
        THEN Early(RaiseNamed("EoNError"))
        ELSE Outcome(Returned(IF return_full_data THEN <<times, S, I, R, SI, SS>>
                              ELSE <<times, S, I, R>>), X0, X, 1)

\* an optional argument: None, or a supplied value
None == [given |-> FALSE, val |-> <<>>]
Some(v) == [given |-> TRUE, val |-> v]
\* a[:,None]*b[None,:]
Outer(a, b) == [i \in DOMAIN a |-> [j \in DOMAIN b |-> Mul(a[i], b[j])]]
\* M * nx.adjacency_matrix(G).toarray(), rows and columns in G.nodes() order
TimesAdjacency(M, g) ==
    [i \in DOMAIN M |-> [j \in DOMAIN M[i] |->
        IF {nodelist_of(g)[i], nodelist_of(g)[j]} \in g.edges THEN M[i][j] ELSE Zero]]
OneMinus(a) == [i \in DOMAIN a |-> Sub(One, a[i])]

\* what SIS_pair_based does with the trajectory the integrator returned
SIS_pair_based_unpack(Vt, N, return_full_data) ==
    LET Ys == Cols(Vt, 0, N)
        Xs == [k \in DOMAIN Ys |-> OneMinus(Ys[k])]
    IN  IF return_full_data
        THEN <<times, SumAxis0(Xs, Vt), SumAxis0(Ys, Vt), Xs, Ys,
               Reshape(Cols(Vt, N, N + N * N), N, N),
               Reshape(Cols(Vt, N + N * N, N + 2 * N * N), N, N)>>
        ELSE <<times, SumAxis0(Xs, Vt), SumAxis0(Ys, Vt)>>

\* the integration stage of a pair-based driver: d is the evaluator's
\* outcome on v0; an exception in the evaluator ends the call
pair_based_integrate(v0, d) ==
    IF d.exc # "none" THEN <<>> ELSE odeint(v0, d.val)

SIS_pair_based(g, nodelist, Y0, tau, gamma, XY0, XX0, transmission_weight, recovery_weight, return_full_data) ==
    LET r   == _get_rate_functions(tau, gamma, transmission_weight, recovery_weight)
        N   == Len0(Y0)
        X0  == OneMinus(Y0)
        v0  == Concat(Y0, Concat(
                   Flatten(TimesAdjacency(IF XY0.given THEN XY0.val ELSE Outer(X0, Y0), g), N, N),
                   Flatten(TimesAdjacency(IF XX0.given THEN XX0.val ELSE Outer(X0, X0), g), N, N)))
    IN  IF ~Resolves("_get_rate_functions") THEN Early(Raised("NameError"))
        ELSE IF XY0.given /\ Shape(XY0.val) # <<N, N>> THEN Early(RaiseNamed("EoNError"))
        ELSE IF XX0.given /\ Shape(XX0.val) # <<N, N>> THEN Early(RaiseNamed("EoNError"))
        ELSE LET d == _dSIS_pair_based_(v0, g, nodelist, r)
             IN  IF d.exc # "none" THEN Outcome(d, v0, <<>>, 1)
                 ELSE Outcome(Returned(SIS_pair_based_unpack(pair_based_integrate(v0, d), N,
                                                             return_full_data)),
                              v0, pair_based_integrate(v0, d), 1)

\* what SIR_pair_based does with the trajectory the integrator returned
SIR_pair_based_unpack(Vt, N, return_full_data) ==
    LET Xs == Cols(Vt, 0, N)
        Ys == Cols(Vt, N, 2 * N)
        Zs == [k \in DOMAIN Xs |-> [t \in DOMAIN Vt |-> Sub(Sub(One, Xs[k][t]), Ys[k][t])]]
    IN  IF return_full_data
        THEN <<times, SumAxis0(Xs, Vt), SumAxis0(Ys, Vt), SumAxis0(Zs, Vt), Xs, Ys, Zs,
               Reshape(Cols(Vt, 2 * N, 2 * N + N * N), N, N),
               Reshape(Cols(Vt, 2 * N + N * N, 2 * N + 2 * N * N), N, N)>>
        ELSE <<times, SumAxis0(Xs, Vt), SumAxis0(Ys, Vt), SumAxis0(Zs, Vt)>>

SIR_pair_based(g, nodelist, Y0, tau, gamma, X0, XY0, XX0, transmission_weight, recovery_weight, return_full_data) ==
    LET r   == _get_rate_functions(tau, gamma, transmission_weight, recovery_weight)
        N   == Len0(Y0)
        X0d == IF X0.given THEN X0.val ELSE OneMinus(Y0)
        v0  == Concat(X0d, Concat(Y0, Concat(
                   Flatten(TimesAdjacency(IF XY0.given THEN XY0.val ELSE Outer(X0d, Y0), g), N, N),
                   Flatten(TimesAdjacency(IF XX0.given THEN XX0.val ELSE Outer(X0d, X0d), g), N, N))))
    IN  IF ~Resolves("_get_rate_functions") THEN Early(Raised("NameError"))
        ELSE IF XY0.given /\ Shape(XY0.val) # <<N, N>> THEN Early(RaiseNamed("EoNError"))
        ELSE IF XX0.given /\ Shape(XX0.val) # <<N, N>> THEN Early(RaiseNamed("EoNError"))
        ELSE LET d == _dSIR_pair_based_(v0, g, nodelist, r)
             IN  IF d.exc # "none" THEN Outcome(d, v0, <<>>, 1)
                 ELSE Outcome(Returned(SIR_pair_based_unpack(pair_based_integrate(v0, d), N,
                                                             return_full_data)),
                              v0, pair_based_integrate(v0, d), 1)

SIS_heterogeneous_meanfield(Sk0, Ik0, tau, gamma, return_full_data) ==
    LET kcount == Len0(Sk0)
        X0 == Concat(Sk0, Ik0)
        X  == odeint(X0, _dSIS_heterogeneous_meanfield_(X0, kcount, tau, gamma))
        Sk == Cols(X, 0, kcount)
        Ik == Cols(X, kcount, Len0(X0))
    IN  IF Len0(Sk0) # Len0(Ik0) THEN Early(RaiseNamed("EoNError"))
        ELSE Outcome(Returned(
                 IF return_full_data
                 THEN <<times, SumAxis0(Sk, X), SumAxis0(Ik, X), Sk, Ik>>
                 ELSE <<times, SumAxis0(Sk, X), SumAxis0(Ik, X)>>), X0, X, 1)

SIR_heterogeneous_meanfield(Sk0, Ik0, Rk0, tau, gamma, return_full_data) ==
    LET Nk == [k \in DOMAIN Sk0 |-> Add(Add(Sk0[k], Ik0[k]), Rk0[k])]
        X0 == Concat(Vec(<<One>>), Rk0)
        X  == odeint(X0, _dSIR_heterogeneous_meanfield_(X0, Sk0, Nk, tau, gamma))
        th == Col(X, 0)
        Rk == Cols(X, 1, Len0(X0))
        Sk == [k \in DOMAIN Rk |-> [t \in DOMAIN X |-> Mul(Sk0[k], Pow(th[t], k))]]
        Ik == [k \in DOMAIN Rk |-> [t \in DOMAIN X |-> Sub(Sub(Nk[k], Sk[k][t]), Rk[k][t])]]
    IN  IF Len0(Sk0) # Len0(Ik0) \/ Len0(Sk0) # Len0(Rk0)
        THEN Early(RaiseNamed("EoNError"))
        ELSE Outcome(Returned(
                 IF ~return_full_data
                 THEN <<times, SumAxis0(Sk, X), SumAxis0(Ik, X), SumAxis0(Rk, X)>>
                 ELSE <<times, Sk, Ik, Rk>>), X0, X, 1)

SIR_compact_pairwise(Sk0, I0, R0, SS0, SI0, tau, gamma, return_full_data) ==
    LET N   == Add(Add(I0, R0), SumArr(Sk0))
        X0  == Concat(Sk0, Vec(<<SS0, SI0, R0>>))
        X   == odeint(X0, _dSIR_compact_pairwise_(X0, N, tau, gamma))
        len == Len0(X0)
        SI  == Col(X, len - 3)
        SS  == Col(X, len - 2)
        R   == Col(X, len - 1)
        Sk  == Cols(X, 0, len - 3)
        S   == SumAxis0(Sk, X)
        I   == [t \in DOMAIN X |-> Sub(Sub(N, R[t]), S[t])]
    IN  Outcome(Returned(IF return_full_data THEN <<times, Sk, I, R, SS, SI>>
                         ELSE <<times, S, I, R>>), X0, X, 1)

\* what SIR_heterogeneous_pairwise does with the trajectory
SIR_heterogeneous_pairwise_unpack(X, Nk, kcount, return_full_data) ==
    LET Sk   == Cols(X, 0, kcount)
        Ik   == Cols(X, kcount, 2 * kcount)
        SkIl == Cols(X, 2 * kcount, 2 * kcount + kcount * kcount)
        SkSl == Cols(X, 2 * kcount + kcount * kcount, 2 * kcount + 2 * kcount * kcount)
        Rk   == [k \in DOMAIN Sk |-> [t \in DOMAIN X |-> Sub(Sub(Nk[k], Sk[k][t]), Ik[k][t])]]
    IN  IF return_full_data
        THEN <<times, SumAxis0(Sk, X), SumAxis0(Ik, X), SumAxis0(Rk, X), Sk, Ik, Rk,
               Reshape(SkIl, kcount, kcount), Reshape(SkSl, kcount, kcount)>>
        ELSE <<times, SumAxis0(Sk, X), SumAxis0(Ik, X), SumAxis0(Rk, X)>>

SIR_heterogeneous_pairwise(Sk0, Ik0, Rk0, SkSl0, SkIl0, tau, gamma, return_full_data, Ks) ==
    LET Ksd    == IF Ks.given THEN Ks.val ELSE [k \in DOMAIN Sk0 |-> k]
        Nk     == [k \in DOMAIN Sk0 |-> Add(Add(Sk0[k], Ik0[k]), Rk0[k])]
        kcount == Len0(Ksd)
        X0     == Concat(Sk0, Concat(Ik0, Concat(Flatten(SkSl0, kcount, kcount),
                                                 Flatten(SkIl0, kcount, kcount))))
        X      == odeint(X0, _dSIR_heterogeneous_pairwise_(X0, tau, gamma, Nk, Ksd))
    IN  OutcomeInPlace(
            Returned(SIR_heterogeneous_pairwise_unpack(X, Nk, kcount, return_full_data)),
            X0, X, 1,
            [SkSl0 |-> SetShape(SkSl0, <<kcount * kcount, 1>>),
             SkIl0 |-> SetShape(SkIl0, <<kcount * kcount, 1>>)])

\* the driver integrates with my_odeint; with return_full_data the first
\* statement of the branch reads the name kcaount, which nothing binds
SIS_heterogeneous_pairwise(Sk0, Ik0, SkSl0, SkIl0, IkIl0, tau, gamma, return_full_data, Ks) ==
    LET Ksd    == IF Ks.given THEN Ks.val ELSE [k \in DOMAIN Sk0 |-> k]
        Nk     == [k \in DOMAIN Sk0 |-> Add(Sk0[k], Ik0[k])]
        kcount == Len0(Nk)
        NkNl   == [i \in 0 .. kcount - 1 |-> [j \in 0 .. kcount - 1 |->
                     Add(Add(Add(SkSl0[i][j], SkIl0[i][j]), IkIl0[i][j]), SkIl0[j][i])]]
        X0     == Concat(Sk0, Concat(Flatten(SkSl0, kcount, kcount),
                                     Flatten(SkIl0, kcount, kcount)))
        X      == odeint(X0, _dSIS_heterogeneous_pairwise_(X0, Nk, NkNl, tau, gamma, Ksd))
        Sk     == Cols(X, 0, kcount)
        Ik     == [k \in DOMAIN Sk |-> [t \in DOMAIN X |-> Sub(Nk[k], Sk[k][t])]]
    IN  IF return_full_data
        THEN Outcome(Raised("NameError"), X0, X, 1)
        ELSE Outcome(Returned(<<times, SumAxis0(Sk, X), SumAxis0(Ik, X)>>), X0, X, 1)

\* what SIS_effective_degree does with the trajectory
SIS_effective_degree_unpack(X, original_shape, return_full_data) ==
    LET ksq == original_shape[0] * original_shape[1]
        Ssi == Cols(X, 0, ksq)
        Isi == Cols(X, ksq, 2 * ksq)
    IN  IF return_full_data
        THEN <<times, SumAxis0(Ssi, X), SumAxis0(Isi, X),
               Reshape(Ssi, original_shape[0], original_shape[1]),
               Reshape(Isi, original_shape[0], original_shape[1])>>
        ELSE <<times, SumAxis0(Ssi, X), SumAxis0(Isi, X)>>

\* what SIR_effective_degree does with the trajectory
SIR_effective_degree_unpack(X, N, original_shape, return_full_data) ==
    LET ksq  == original_shape[0] * original_shape[1]
        R    == Col(X, ksq)
        S_si == Cols(X, 0, ksq)
        S    == SumAxis0(S_si, X)
        I    == [t \in DOMAIN X |-> Sub(Sub(N, R[t]), S[t])]
    IN  IF return_full_data
        THEN <<times, S, I, R, Reshape(S_si, original_shape[0], original_shape[1])>>
        ELSE <<times, S, I, R>>

\* Ssi0.shape and Isi0.shape are assigned to, on the caller's own arrays
SIS_effective_degree(Ssi0, Isi0, tau, gamma, return_full_data) ==
    LET original_shape == Vec(Shape(Ssi0))
        ksq  == original_shape[0] * original_shape[1]
        Sflat == SetShape(Ssi0, <<1, ksq>>)
        Iflat == SetShape(Isi0, <<1, ksq>>)
        X0   == Concat(Sflat.data, Iflat.data)
        d    == _dSIS_effective_degree_(X0, original_shape, tau, gamma)
    IN  IF Shape(Isi0)[1] * Shape(Isi0)[2] # ksq
        THEN OutcomeInPlace(Raised("ValueError"), NoVec, <<>>, 0,
                            [Ssi0 |-> Sflat, Isi0 |-> ArrayObject(Isi0)])
        ELSE IF d.exc # "none"
        THEN OutcomeInPlace(d, X0, <<>>, 1, [Ssi0 |-> Sflat, Isi0 |-> Iflat])
        ELSE OutcomeInPlace(
                 Returned(SIS_effective_degree_unpack(odeint(X0, d.val), original_shape,
                                                      return_full_data)),
                 X0, odeint(X0, d.val), 1, [Ssi0 |-> Sflat, Isi0 |-> Iflat])

\* S_si0.shape is assigned to, on the caller's own array
SIR_effective_degree(S_si0, I0, R0, tau, gamma, return_full_data) ==
    LET original_shape == Vec(Shape(S_si0))
        flat == SetShape(S_si0, <<original_shape[0] * original_shape[1]>>)
        N    == Add(Add(SumArr(flat.data), I0), R0)
        X0   == Concat(flat.data, Vec(<<R0>>))
        d    == _dSIR_effective_degree_(X0, N, original_shape, tau, gamma)
    IN  IF d.exc # "none"
        THEN OutcomeInPlace(d, X0, <<>>, 1, [S_si0 |-> flat])
        ELSE OutcomeInPlace(
                 Returned(SIR_effective_degree_unpack(odeint(X0, d.val), N, original_shape,
                                                      return_full_data)),
                 X0, odeint(X0, d.val), 1, [S_si0 |-> flat])

---------------------------------------------------------------------------
(* Specification SpecDriver: every driver called once on small inputs      *)

MaxDriverNodes == 2

InitDriver ==
    /\ G \in WeightedGraphs(MaxDriverNodes, MaxDriverNodes)
    /\ fn = "none" /\ args = <<>> /\ pc = "ready"
    /\ V0 = NoVec /\ V = <<>> /\ ncalls = 0 /\ its = 0 /\ theta = Zero
    /\ out = Raised("none")
    /\ stepper = NoStepper
    /\ applied = NoApplication

\* the call of driver name with arguments a ended with outcome o
Ends(name, a, o) ==
    /\ fn' = name
    /\ args' = (IF "arrays" \in DOMAIN o THEN [a EXCEPT !.arrays = o.arrays] ELSE a)
    /\ out' = [exc |-> o.exc, val |-> o.val]
    /\ V0' = o.V0 /\ V' = o.V /\ ncalls' = ncalls + o.ncalls
    /\ pc' = IF o.exc = "none" THEN "returned" ELSE "raised"
    /\ UNCHANGED <<applied, stepper, G, its, theta>>

Counts == { Zero, One, Num(2), Num(3) }
\* arrays of every length up to MaxClasses filled with one value
Arrays(x) == { Fill(len, x) : len \in 1 .. MaxClasses }
\* a supplied pair array: absent, of the right shape, or with a row or a
\* column too many
PairArrays(N) ==
    { None, Some(Reshape(Fill(N * N, Frac(1, 4)), N, N)),
      Some(Reshape(Fill((N + 1) * N, Frac(1, 4)), N + 1, N)),
      Some(Reshape(Fill(N * (N + 1), Frac(1, 4)), N, N + 1)) }

Call_SIS_homogeneous_pairwise ==
    /\ pc = "ready"
    /\ \E S0 \in { Zero, One, Num(2) }, I0 \in { Zero, One }, SI0 \in Counts, SS0 \in Counts :
       \E n \in { One, Num(2) }, full \in BOOLEAN :
           Ends("SIS_homogeneous_pairwise",
                [S0 |-> S0, I0 |-> I0, SI0 |-> SI0, SS0 |-> SS0, n |-> n,
                 return_full_data |-> full],
                SIS_homogeneous_pairwise(S0, I0, SI0, SS0, n, One, One, full))

Call_SIR_homogeneous_pairwise ==
    /\ pc = "ready"
    /\ \E S0 \in { Zero, One, Num(2) }, I0 \in { Zero, One }, R0 \in { Zero, One } :
       \E SI0 \in Counts, SS0 \in Counts, n \in { One, Num(2) }, full \in BOOLEAN :
           Ends("SIR_homogeneous_pairwise",
                [S0 |-> S0, I0 |-> I0, R0 |-> R0, SI0 |-> SI0, SS0 |-> SS0, n |-> n,
                 return_full_data |-> full],
                SIR_homogeneous_pairwise(S0, I0, R0, SI0, SS0, n, One, One, full))

\* the pair arrays the caller supplied, as objects
SuppliedPairArrays(XY0, XX0) ==
    LET a == [XY0 |-> XY0, XX0 |-> XX0]
    IN  [x \in { y \in { "XY0", "XX0" } : a[y].given } |-> ArrayObject(a[x].val)]

Call_SIS_pair_based ==
    /\ pc = "ready"
    /\ \E Y0 \in [0 .. order(G) - 1 -> { Zero, One }], tw \in Labels, full \in BOOLEAN :
       \E XY0 \in PairArrays(order(G)), XX0 \in PairArrays(order(G)) :
           Ends("SIS_pair_based",
                [Y0 |-> Y0, XY0 |-> XY0, XX0 |-> XX0, transmission_weight |-> tw,
                 return_full_data |-> full, arrays |-> SuppliedPairArrays(XY0, XX0)],
                SIS_pair_based(G, nodelist_of(G), Y0, One, One, XY0, XX0, tw, "none", full))

Call_SIR_pair_based ==
    /\ pc = "ready"
    /\ \E Y0 \in [0 .. order(G) - 1 -> { Zero, One }], tw \in Labels, full \in BOOLEAN :
       \E XY0 \in PairArrays(order(G)), XX0 \in PairArrays(order(G)) :
           Ends("SIR_pair_based",
                [Y0 |-> Y0, XY0 |-> XY0, XX0 |-> XX0, transmission_weight |-> tw,
                 return_full_data |-> full, arrays |-> SuppliedPairArrays(XY0, XX0)],
                SIR_pair_based(G, nodelist_of(G), Y0, One, One, None, XY0, XX0, tw, "none", full))

Call_SIS_heterogeneous_meanfield ==
    /\ pc = "ready"
    /\ \E Sk0 \in Arrays(Num(2)), Ik0 \in Arrays(One), tau \in { One, Num(2) }, full \in BOOLEAN :
           Ends("SIS_heterogeneous_meanfield",
                [Sk0 |-> Sk0, Ik0 |-> Ik0, tau |-> tau, return_full_data |-> full],
                SIS_heterogeneous_meanfield(Sk0, Ik0, tau, One, full))

Call_SIR_heterogeneous_meanfield ==
    /\ pc = "ready"
    /\ \E Sk0 \in Arrays(Num(2)), Ik0 \in Arrays(One), Rk0 \in Arrays(Zero), full \in BOOLEAN :
           Ends("SIR_heterogeneous_meanfield",
                [Sk0 |-> Sk0, Ik0 |-> Ik0, Rk0 |-> Rk0, return_full_data |-> full],
                SIR_heterogeneous_meanfield(Sk0, Ik0, Rk0, One, One, full))

Call_SIR_compact_pairwise ==
    /\ pc = "ready"
    /\ \E Sk0 \in Arrays(Num(2)), SS0 \in Counts, SI0 \in Counts, R0 \in { Zero, One } :
       \E full \in BOOLEAN :
           Ends("SIR_compact_pairwise",
                [Sk0 |-> Sk0, I0 |-> One, R0 |-> R0, SS0 |-> SS0, SI0 |-> SI0,
                 return_full_data |-> full],
                SIR_compact_pairwise(Sk0, One, R0, SS0, SI0, One, One, full))

Call_SIR_heterogeneous_pairwise ==
    /\ pc = "ready"
    /\ \E Sk0 \in Arrays(Num(2)), ss \in Counts, si \in Counts, full \in BOOLEAN :
           LET kcount == Len0(Sk0)
               SkSl0  == Reshape(Fill(kcount * kcount, ss), kcount, kcount)
               SkIl0  == Reshape(Fill(kcount * kcount, si), kcount, kcount)
           IN  Ends("SIR_heterogeneous_pairwise",
                    [Sk0 |-> Sk0, SkSl0 |-> SkSl0, SkIl0 |-> SkIl0, return_full_data |-> full,
                     arrays |-> [SkSl0 |-> ArrayObject(SkSl0), SkIl0 |-> ArrayObject(SkIl0)]],
                    SIR_heterogeneous_pairwise(Sk0, Fill(kcount, One), Fill(kcount, Zero),
                                               SkSl0, SkIl0, One, One, full, None))

Call_SIS_heterogeneous_pairwise ==
    /\ pc = "ready"
    /\ \E Sk0 \in Arrays(Num(2)), ss \in Counts, si \in Counts, full \in BOOLEAN :
           LET kcount == Len0(Sk0)
               SkSl0  == Reshape(Fill(kcount * kcount, ss), kcount, kcount)
               SkIl0  == Reshape(Fill(kcount * kcount, si), kcount, kcount)
               IkIl0  == Reshape(Fill(kcount * kcount, One), kcount, kcount)
           IN  Ends("SIS_heterogeneous_pairwise",
                    [Sk0 |-> Sk0, SkSl0 |-> SkSl0, SkIl0 |-> SkIl0, IkIl0 |-> IkIl0,
                     return_full_data |-> full,
                     arrays |-> [SkSl0 |-> ArrayObject(SkSl0), SkIl0 |-> ArrayObject(SkIl0),
                                 IkIl0 |-> ArrayObject(IkIl0)]],
                    SIS_heterogeneous_pairwise(Sk0, Fill(kcount, One), SkSl0, SkIl0, IkIl0,
                                               One, One, full, None))

Call_SIS_effective_degree ==
    /\ pc = "ready"
    /\ \E shape \in Shapes, s \in { One, Num(2) }, same \in BOOLEAN, full \in BOOLEAN :
           LET Ssi0 == Reshape(Fill(shape[0] * shape[1], s), shape[0], shape[1])
               Isi0 == IF same THEN Reshape(Fill(shape[0] * shape[1], One), shape[0], shape[1])
                       ELSE Reshape(Fill(shape[0] * shape[1], One), shape[1], shape[0])
           IN  Ends("SIS_effective_degree",
                    [Ssi0 |-> Ssi0, Isi0 |-> Isi0, return_full_data |-> full,
                     arrays |-> [Ssi0 |-> ArrayObject(Ssi0), Isi0 |-> ArrayObject(Isi0)]],
                    SIS_effective_degree(Ssi0, Isi0, One, One, full))

Call_SIR_effective_degree ==
    /\ pc = "ready"
    /\ \E shape \in Shapes, s \in { One, Num(2) }, R0 \in { Zero, One }, full \in BOOLEAN :
           LET S_si0 == Reshape(Fill(shape[0] * shape[1], s), shape[0], shape[1])
           IN  Ends("SIR_effective_degree",
                    [S_si0 |-> S_si0, I0 |-> One, R0 |-> R0, return_full_data |-> full,
                     arrays |-> [S_si0 |-> ArrayObject(S_si0)]],
                    SIR_effective_degree(S_si0, One, R0, One, One, full))

NextDriver ==
    \/ Call_SIS_homogeneous_pairwise
    \/ Call_SIR_homogeneous_pairwise
    \/ Call_SIS_pair_based
    \/ Call_SIR_pair_based
    \/ Call_SIS_heterogeneous_meanfield
    \/ Call_SIR_heterogeneous_meanfield
    \/ Call_SIR_compact_pairwise
    \/ Call_SIR_heterogeneous_pairwise
    \/ Call_SIS_heterogeneous_pairwise
    \/ Call_SIS_effective_degree
    \/ Call_SIR_effective_degree

SpecDriver == InitDriver /\ [][NextDriver]_vars

---------------------------------------------------------------------------
(* Attack-rate fixed points.  Pk and Sk0 are dicts: functions on their set *)
(* of keys.  The numbers here are Python floats, on which a division by    *)
(* zero and a negative power of zero raise ZeroDivisionError: the value    *)
(* with d = 0 stands for that exception until the statement ends.          *)

MaxAttackDeg == 2
MaxIts == 2

\* x**k for a float x and an integer k of either sign
PowInt(x, k) == IF k >= 0 THEN Pow(x, k) ELSE Div(One, Pow(x, 0 - k))

psihat(Pk, Sk0, x) ==
    SumOver([k \in DOMAIN Pk |-> Mul3(Pk[k], Sk0[k], PowInt(x, k))], DOMAIN Pk)

psihatPrime(Pk, Sk0, x) ==
    SumOver([k \in DOMAIN Pk |-> Mul(Mul3(Num(k), Pk[k], Sk0[k]), PowInt(x, k - 1))],
            DOMAIN Pk)

\* Epi_Prob_discrete on a dict Pk, which is what Attack_rate_discrete hands
\* it: k_ave = psiPrime(1) evaluates ks*Pk, an array times a dict, which is
\* a TypeError, before the loop starts
Epi_Prob_discrete(Pk, p, number_its) == Raised("TypeError")

\* Sk0 after "if Sk0 is None" (rho, when it is None there, counts as 0)
attack_Sk0(Pk, rho, Sk0) ==
    IF Sk0.given THEN Sk0.val
    ELSE [k \in DOMAIN Pk |-> Sub(One, IF rho.given THEN rho.val ELSE Zero)]

\* phiS0 after "if phiS0 == None"
attack_phiS0(Pk, Sk0, phiS0) ==
    IF phiS0.given THEN phiS0.val
    ELSE Div(psihatPrime(Pk, Sk0, One),
             SumOver([k \in DOMAIN Pk |-> Mul(Num(k), Pk[k])], DOMAIN Pk))

\* phiR0 after "if phiR0 == None"
attack_phiR0(phiR0) == IF phiR0.given THEN phiR0.val ELSE Zero

\* one pass of the loop of Attack_rate_discrete
theta_update(Pk, Sk0, p, phiS0, phiR0, x) ==
    Add(Sub(One, p),
        Mul(p, Add(phiR0, Div(Mul(phiS0, psihatPrime(Pk, Sk0, x)),
                              psihatPrime(Pk, Sk0, One)))))

\* one pass of the loop of Attack_rate_cts_time
omega_update(Pk, Sk0, tau, gamma, phiS0, phiR0, x) ==
    Add(Add(Div(gamma, Add(gamma, tau)),
            Div(Mul3(tau, phiS0, psihatPrime(Pk, Sk0, x)),
                Mul(psihatPrime(Pk, Sk0, One), Add(gamma, tau)))),
        Div(Mul(tau, phiR0), Add(gamma, tau)))

---------------------------------------------------------------------------
(* EBCM_discrete.  Its arguments psihat and psihatPrime are functions of   *)
(* the caller: here the polynomials above for a degree distribution Pk and *)
(* susceptible proportions Sk0.  The lists times, theta, R, S, I it builds *)
(* are arrays that grow by one entry per pass of its loop.                 *)

MaxTmax == 2

\* a[-1]
Last(a) == a[Len0(a) - 1]
\* a.append(x)
Append0(a, x) == Concat(a, Vec(<<x>>))

\* the five lists before the loop
EBCM_discrete_start(N, Pk, Sk0, R0) ==
    LET S == Mul(N, psihat(Pk, Sk0, One))
    IN  [times |-> Vec(<<0>>), theta |-> Vec(<<One>>), R |-> Vec(<<R0>>),
         S |-> Vec(<<S>>), I |-> Vec(<<Sub(Sub(N, S), R0)>>)]

\* newtheta of a pass of the loop
EBCM_discrete_newtheta(L, Pk, Sk0, p, phiS0, phiR0) ==
    Add(Sub(One, p),
        Mul(p, Add(phiR0, Div(Mul(phiS0, psihatPrime(Pk, Sk0, Last(L.theta))),
                              psihatPrime(Pk, Sk0, One)))))

\* the five lists after the pass for time, which added R[-1]+I[-1] of a
\* pass that reads the new I instead of the last one
EBCM_discrete_pass_newI(L, time, N, Pk, Sk0, p, phiS0, phiR0) ==
    LET newtheta == EBCM_discrete_newtheta(L, Pk, Sk0, p, phiS0, phiR0)
        newS == Mul(N, psihat(Pk, Sk0, newtheta))
        newR == Add(Last(L.R), Sub(Sub(N, Last(L.R)), newS))
        newI == Sub(Sub(N, newR), newS)
    IN  [times |-> Append0(L.times, time), theta |-> Append0(L.theta, newtheta),
         R |-> Append0(L.R, newR), S |-> Append0(L.S, newS), I |-> Append0(L.I, newI)]
EBCM_discrete_pass(L, time, N, Pk, Sk0, p, phiS0, phiR0) ==
    LET newtheta == EBCM_discrete_newtheta(L, Pk, Sk0, p, phiS0, phiR0)
        newR == Add(Last(L.R), Last(L.I))
        newS == Mul(N, psihat(Pk, Sk0, newtheta))
        newI == Sub(Sub(N, newR), newS)
    IN  [times |-> Append0(L.times, time), theta |-> Append0(L.theta, newtheta),
         R |-> Append0(L.R, newR), S |-> Append0(L.S, newS), I |-> Append0(L.I, newI)]

\* what the return statement hands back
EBCM_discrete_return(L, return_full_data) ==
    IF ~return_full_data THEN <<L.times, L.S, L.I, L.R>>
    ELSE <<L.times, L.S, L.I, L.R, L.theta>>

---------------------------------------------------------------------------
(* Specifications SpecAttack, of the two attack-rate functions, and        *)
(* SpecEBCM, of EBCM_discrete: one action for the statements before the    *)
(* loop, one for a pass of the loop and one for the return                 *)

\* degree distributions: uniform on a non-empty set of degrees
PkDicts ==
    { [k \in D |-> Frac(1, Cardinality(D))] : D \in (SUBSET (0 .. MaxAttackDeg)) \ { {} } }

InitAttack ==
    /\ G = NoGraph
    /\ fn = "none" /\ args = <<>> /\ pc = "ready"
    /\ V0 = NoVec /\ V = <<>> /\ ncalls = 0 /\ its = 0 /\ theta = Zero
    /\ out = Raised("none")
    /\ stepper = NoStepper
    /\ applied = NoApplication

\* the call ends before its loop with the exception r
Abort(r) == out' = r /\ pc' = "raised" /\ UNCHANGED <<its, theta>>

\* the call enters its loop with the first iterate x
Enter(x) == theta' = x /\ its' = 0 /\ pc' = "iterating" /\ UNCHANGED out

\* a pass of the loop produced x
Pass(x) ==
    IF IsNaN(x)
    THEN out' = Raised("ZeroDivisionError") /\ pc' = "raised" /\ UNCHANGED <<its, theta>>
    ELSE theta' = x /\ its' = its + 1 /\ UNCHANGED <<pc, out>>

\* the loop is over and the function returns 1 - psihat(x)
Leave(x) ==
    /\ out' = (IF IsNaN(x) THEN Raised("ZeroDivisionError") ELSE Returned(x))
    /\ pc' = (IF IsNaN(x) THEN "raised" ELSE "returned")
    /\ UNCHANGED <<its, theta>>

Call_Attack_rate_discrete ==
    /\ pc = "ready"
    /\ \E Pk \in PkDicts, p \in { Frac(1, 2), One }, number_its \in 0 .. MaxIts :
       \E rho \in { None, Some(Zero), Some(Frac(1, 2)) },
          Sk0 \in { None, Some([k \in DOMAIN Pk |-> Frac(1, 2)]) },
          phiS0 \in { None, Some(Frac(1, 2)) }, phiR0 \in { None, Some(Zero) } :
        /\ fn' = "Attack_rate_discrete"
        /\ args' = [Pk |-> Pk, p |-> p, number_its |-> number_its, rho |-> rho,
                    Sk0 |-> Sk0, phiS0 |-> phiS0, phiR0 |-> phiR0]
        /\ IF rho.given /\ Sk0.given THEN Abort(RaiseNamed("EoNError"))
           ELSE IF ~Sk0.given /\ (~rho.given \/ rho.val = Zero)
           THEN Abort(Epi_Prob_discrete(Pk, p, number_its))
           ELSE IF IsNaN(attack_phiS0(Pk, attack_Sk0(Pk, rho, Sk0), phiS0))
           THEN Abort(Raised("ZeroDivisionError"))
           ELSE Enter(One)
    /\ UNCHANGED <<applied, stepper, G, V0, V, ncalls>>

Step_Attack_rate_discrete ==
    /\ pc = "iterating" /\ fn = "Attack_rate_discrete"
    /\ its < args.number_its
    /\ LET Sk0 == attack_Sk0(args.Pk, args.rho, args.Sk0)
       IN  Pass(theta_update(args.Pk, Sk0, args.p, attack_phiS0(args.Pk, Sk0, args.phiS0),
                             attack_phiR0(args.phiR0), theta))
    /\ UNCHANGED <<applied, stepper, G, fn, args, V0, V, ncalls>>

Return_Attack_rate_discrete ==
    /\ pc = "iterating" /\ fn = "Attack_rate_discrete"
    /\ its = args.number_its
    /\ Leave(Sub(One, psihat(args.Pk, attack_Sk0(args.Pk, args.rho, args.Sk0), theta)))
    /\ UNCHANGED <<applied, stepper, G, fn, args, V0, V, ncalls>>

Call_Attack_rate_cts_time ==
    /\ pc = "ready"
    /\ \E Pk \in PkDicts, tau \in { One, Num(2) }, number_its \in 0 .. MaxIts :
       \E rho \in { None, Some(Zero), Some(Frac(1, 2)) },
          Sk0 \in { None, Some([k \in DOMAIN Pk |-> Frac(1, 2)]) },
          phiS0 \in { None, Some(Frac(1, 2)) }, phiR0 \in { None, Some(Zero) } :
        /\ fn' = "Attack_rate_cts_time"
        /\ args' = [Pk |-> Pk, tau |-> tau, gamma |-> One, number_its |-> number_its,
                    rho |-> rho, Sk0 |-> Sk0, phiS0 |-> phiS0, phiR0 |-> phiR0]
        /\ IF rho.given /\ Sk0.given THEN Abort(RaiseNamed("EoNError"))
           ELSE IF IsNaN(attack_phiS0(Pk, attack_Sk0(Pk, rho, Sk0), phiS0))
           THEN Abort(Raised("ZeroDivisionError"))
           ELSE Enter(Div(One, Add(One, tau)))
    /\ UNCHANGED <<applied, stepper, G, V0, V, ncalls>>

Step_Attack_rate_cts_time ==
    /\ pc = "iterating" /\ fn = "Attack_rate_cts_time"
    /\ its < args.number_its
    /\ LET Sk0 == attack_Sk0(args.Pk, args.rho, args.Sk0)
       IN  Pass(omega_update(args.Pk, Sk0, args.tau, args.gamma,
                             attack_phiS0(args.Pk, Sk0, args.phiS0),
                             attack_phiR0(args.phiR0), theta))
    /\ UNCHANGED <<applied, stepper, G, fn, args, V0, V, ncalls>>

Return_Attack_rate_cts_time ==
    /\ pc = "iterating" /\ fn = "Attack_rate_cts_time"
    /\ its = args.number_its
    /\ Leave(Sub(One, psihat(args.Pk, attack_Sk0(args.Pk, args.rho, args.Sk0), theta)))
    /\ UNCHANGED <<applied, stepper, G, fn, args, V0, V, ncalls>>

\* the degree distributions behind the psihat and psihatPrime a caller of
\* EBCM_discrete supplies: all nodes isolated, all of degree 1, all of
\* degree 2, half of degree 1 and half of degree 2
CallerPk ==
    { [k \in { 0 } |-> One], [k \in { 1 } |-> One], [k \in { 2 } |-> One],
      [k \in { 1, 2 } |-> Frac(1, 2)] }

Call_EBCM_discrete ==
    /\ pc = "ready"
    /\ \E N \in { Num(2), Num(4) }, Pk \in CallerPk, s \in { Frac(1, 2), One } :
       \E p \in { Frac(1, 2), One }, phiS0 \in { Frac(1, 2), One },
          phiR0 \in { Zero, Frac(1, 2) }, R0 \in { Zero, One } :
       \E tmax \in 0 .. MaxTmax, full \in BOOLEAN :
        /\ fn' = "EBCM_discrete"
        /\ args' = [N |-> N, Pk |-> Pk, Sk0 |-> [k \in DOMAIN Pk |-> s], p |-> p,
                    phiS0 |-> phiS0, phiR0 |-> phiR0, R0 |-> R0, tmax |-> tmax,
                    return_full_data |-> full]
        /\ V' = EBCM_discrete_start(N, Pk, [k \in DOMAIN Pk |-> s], R0)
        /\ its' = 0 /\ pc' = "iterating"
    /\ UNCHANGED <<applied, stepper, G, V0, ncalls, theta, out>>

Step_EBCM_discrete ==
    /\ pc = "iterating" /\ fn = "EBCM_discrete"
    /\ its < args.tmax
    /\ IF IsNaN(EBCM_discrete_newtheta(V, args.Pk, args.Sk0, args.p, args.phiS0, args.phiR0))
       THEN out' = Raised("ZeroDivisionError") /\ pc' = "raised" /\ UNCHANGED <<V, its>>
       ELSE /\ V' = EBCM_discrete_pass(V, its + 1, args.N, args.Pk, args.Sk0, args.p,
                                       args.phiS0, args.phiR0)
            /\ its' = its + 1
            /\ UNCHANGED <<pc, out>>
    /\ UNCHANGED <<applied, stepper, G, fn, args, V0, ncalls, theta>>

Return_EBCM_discrete ==
    /\ pc = "iterating" /\ fn = "EBCM_discrete"
    /\ its = args.tmax
    /\ out' = Returned(EBCM_discrete_return(V, args.return_full_data))
    /\ pc' = "returned"
    /\ UNCHANGED <<applied, stepper, G, fn, args, V0, V, ncalls, its, theta>>

NextAttack ==
    \/ Call_Attack_rate_discrete
    \/ Step_Attack_rate_discrete
    \/ Return_Attack_rate_discrete
    \/ Call_Attack_rate_cts_time
    \/ Step_Attack_rate_cts_time
    \/ Return_Attack_rate_cts_time

SpecAttack == InitAttack /\ [][NextAttack]_vars

NextEBCM ==
    \/ Call_EBCM_discrete
    \/ Step_EBCM_discrete
    \/ Return_EBCM_discrete

SpecEBCM == InitAttack /\ [][NextEBCM]_vars

---------------------------------------------------------------------------
(* my_odeint.  dfunc is a function of the caller: here one of two named    *)
(* derivatives.  An advance of the stepper (r.integrate(time), the vode    *)
(* Adams method in the code) is stood for by one explicit Euler step from  *)
(* the stepper's time to the requested one, which asks for the derivative  *)
(* once, at the stepper's time and state.  The variable stepper is the     *)
(* object the code calls r.                                                *)

MaxTimes == 3

\* the caller's derivative: dfunc(X, t, *args)
dfunc(name, X, t, a) ==
    IF name = "decay" THEN [i \in DOMAIN X |-> Neg(Mul(a[1], X[i]))]
    ELSE [i \in DOMAIN X |-> Add(Mul(a[1], t), a[2])]

\* integrate.ode(lambda t, X: dfunc(X, t, *args)) with set_initial_value(V0, times[0])
ode(y0, t0) == [t |-> t0, y |-> y0, integrated |-> <<>>, calls |-> <<>>]

\* the lambda handed to integrate.ode, called by the stepper as f(t, y)
ode_f(name, a, t, X) == dfunc(name, X, t, a)

\* r.integrate(time): the stepper afterwards; its y is what the call returns
integrate(s, time, name, a) ==
    LET dy == ode_f(name, a, s.t, s.y)
        y  == [i \in DOMAIN s.y |-> Add(s.y[i], Mul(Sub(time, s.t), dy[i]))]
    IN  [t |-> time, y |-> y,
         integrated |-> Append(s.integrated, [time |-> time, y |-> y]),
         calls |-> Append(s.calls, [X |-> s.y, t |-> s.t, args |-> a])]

\* the times the loop runs over, had it read times instead of times[1:]
my_odeint_loop_times_all(ts) == ts
\* times[1:]
my_odeint_loop_times(ts) == [i \in 0 .. Len0(ts) - 2 |-> ts[i + 1]]

\* the arrays of up to MaxTimes report times out of 0, 1, 2, in any order
TimesArrays ==
    UNION { [0 .. len - 1 -> { Zero, One, Num(2) }] : len \in 0 .. MaxTimes }

Call_my_odeint ==
    /\ pc = "ready"
    /\ \E y0 \in { Vec(<<One>>), Vec(<<One, Zero>>), Vec(<<Num(2), One>>) },
          ts \in TimesArrays :
       \E d \in { [dfunc |-> "decay", args |-> <<One>>],
                   [dfunc |-> "decay", args |-> <<Num(2)>>],
                   [dfunc |-> "forcing", args |-> <<One, Zero>>],
                   [dfunc |-> "forcing", args |-> <<One, One>>] } :
        /\ fn' = "my_odeint"
        /\ args' = [dfunc |-> d.dfunc, V0 |-> y0, times |-> ts, args |-> d.args]
        /\ V0' = y0
        /\ IF Len0(ts) = 0
           THEN /\ out' = Raised("IndexError")      \* times[0]
                /\ pc' = "raised"
                /\ UNCHANGED <<V, its, stepper>>
           ELSE /\ stepper' = ode(y0, ts[0])
                /\ V' = Vec(<<y0>>)
                /\ its' = 0
                /\ pc' = "iterating"
                /\ UNCHANGED out
    /\ UNCHANGED <<applied, G, ncalls, theta>>

Step_my_odeint ==
    /\ pc = "iterating" /\ fn = "my_odeint"
    /\ its < Len0(my_odeint_loop_times(args.times))
    /\ stepper' = integrate(stepper, my_odeint_loop_times(args.times)[its],
                            args.dfunc, args.args)
    /\ V' = Append0(V, stepper'.y)
    /\ its' = its + 1
    /\ ncalls' = ncalls + 1
    /\ UNCHANGED <<applied, G, fn, args, pc, V0, theta, out>>

Return_my_odeint ==
    /\ pc = "iterating" /\ fn = "my_odeint"
    /\ its = Len0(my_odeint_loop_times(args.times))
    /\ out' = Returned(V)
    /\ pc' = "returned"
    /\ UNCHANGED <<applied, G, fn, args, V0, V, ncalls, its, theta, stepper>>

NextOdeint ==
    \/ Call_my_odeint
    \/ Step_my_odeint
    \/ Return_my_odeint

SpecOdeint == InitAttack /\ [][NextOdeint]_vars

---------------------------------------------------------------------------
(* get_Psi and get_PsiPrime.  Each returns a lambda; get_Psi(Pk, x) here   *)
(* is get_Psi(Pk)(x).  The lambda reads k, which the list comprehension    *)
(* that builds Pkarray leaves bound in the enclosing function (the code is *)
(* Python 2: print statements, xrange, has_key): to its last value, maxk.  *)
(* A returned value carries its kind, a number or an array.                *)

MaxPsiDeg == 3

Scalar(v) == [kind |-> "scalar", val |-> v]
Array(a) == [kind |-> "array", val |-> a]

\* max(Pk.keys())
psi_maxk(Pk) == CHOOSE k \in DOMAIN Pk : \A j \in DOMAIN Pk : j <= k
\* scipy.array([Pk.get(k,0) for k in range(maxk+1)])
psi_Pkarray(Pk) ==
    [k \in 0 .. psi_maxk(Pk) |-> IF k \in DOMAIN Pk THEN Pk[k] ELSE Zero]

\* get_Psi(Pk)(x) = Pkarray.dot(x**k), k being maxk: the array times a number
get_Psi(Pk, x) ==
    LET k == psi_maxk(Pk)
        Pkarray == psi_Pkarray(Pk)
    IN  Returned(Array([j \in DOMAIN Pkarray |-> Mul(Pkarray[j], PowInt(x, k))]))

\* get_PsiPrime(Pk)(x) = Pkarray[k].dot(k*x**(k-1)), k being maxk: one
\* entry of the array times a number
get_PsiPrime(Pk, x) ==
    LET k == psi_maxk(Pk)
        Pkarray == psi_Pkarray(Pk)
        xp == PowInt(x, k - 1)
    IN  IF IsNaN(xp) THEN Raised("ZeroDivisionError")       \* 0.0**(-1)
        ELSE Returned(Scalar(Mul(Pkarray[k], Mul(Num(k), xp))))

\* dicts on every non-empty set of degrees up to MaxPsiDeg, the same
\* proportion at every key
PsiDicts ==
    { [k \in D |-> Frac(1, Cardinality(D))] : D \in (SUBSET (0 .. MaxPsiDeg)) \ { {} } }

InitPsi ==
    /\ G = NoGraph
    /\ fn = "none" /\ pc = "ready"
    /\ args \in [Pk : PsiDicts, x : { Zero, Frac(1, 2), One, Num(2) }]
    /\ V0 = NoVec /\ V = <<>> /\ ncalls = 0 /\ its = 0 /\ theta = Zero
    /\ out = Raised("none")
    /\ stepper = NoStepper
    /\ applied = NoApplication

\* the function name applied to the arguments ended with outcome o
Applies(name, o) ==
    /\ fn' = name
    /\ out' = o
    /\ pc' = IF o.exc = "none" THEN "returned" ELSE "raised"
    /\ UNCHANGED <<applied, stepper, G, V0, V, ncalls, its, theta>>

Call_get_Psi ==
    /\ pc = "ready"
    /\ Applies("get_Psi", get_Psi(args.Pk, args.x))
    /\ UNCHANGED args

Call_get_PsiPrime ==
    /\ pc = "ready"
    /\ Applies("get_PsiPrime", get_PsiPrime(args.Pk, args.x))
    /\ UNCHANGED args

NextPsi ==
    \/ Call_get_Psi
    \/ Call_get_PsiPrime

SpecPsi == InitPsi /\ [][NextPsi]_vars

---------------------------------------------------------------------------
(* subsample (src/EoN/__init__.py).  Times are numbers, statuses are       *)
(* counts; the lists are arrays.  EoNError is defined in the module that   *)
(* defines subsample, so the raise there is of EoNError.                   *)

MaxObs == 3

\* the inner while loop for the report time t, from observation oi with
\* candidate cand (None while the name is unbound), had it compared with <
subsample_observe_strict(ts, status1, t, oi, cand) ==
    LET RECURSIVE scan(_, _)
        scan(i, c) ==
            IF i < Len0(ts) /\ Gt(t, ts[i])
            THEN IF i >= Len0(status1) THEN [exc |-> "IndexError", oi |-> i, cand |-> c]
                 ELSE scan(i + 1, Some(status1[i]))
            ELSE [exc |-> "none", oi |-> i, cand |-> c]
    IN  scan(oi, cand)
subsample_observe(ts, status1, t, oi, cand) ==
    LET RECURSIVE scan(_, _)
        scan(i, c) ==
            IF i < Len0(ts) /\ ~Gt(ts[i], t)
            THEN IF i >= Len0(status1) THEN [exc |-> "IndexError", oi |-> i, cand |-> c]
                 ELSE scan(i + 1, Some(status1[i]))
            ELSE [exc |-> "none", oi |-> i, cand |-> c]
    IN  scan(oi, cand)

\* an outcome together with the report_status lists the call had created
\* when it ended, in the order of their creation
Built(o, lists) == [exc |-> o.exc, val |-> o.val, built |-> lists]

\* the outer while loop from report index ri, with report_status1 = acc
RECURSIVE subsample_report(_, _, _, _, _, _, _)
subsample_report(report_times, ts, status1, ri, oi, cand, acc) ==
    IF ri >= Len0(report_times) THEN Built(Returned(acc), <<acc>>)
    ELSE LET o == subsample_observe(ts, status1, report_times[ri], oi, cand)
         IN  IF o.exc # "none" THEN Built(Raised(o.exc), <<acc>>)
             ELSE IF ~o.cand.given THEN Built(Raised("UnboundLocalError"), <<acc>>)
             ELSE subsample_report(report_times, ts, status1, ri + 1, o.oi, o.cand,
                                   Concat(acc, Vec(<<o.cand.val>>)))

\* subsample up to report_status1 = scipy.array(report_status1), had the
\* test on the first report time been <=
subsample_status1_le(report_times, ts, status1) ==
    IF Len0(report_times) = 0 \/ Len0(ts) = 0 THEN Built(Raised("IndexError"), <<>>)
    ELSE IF ~Gt(report_times[0], ts[0]) THEN Built(Raised("EoNError"), <<>>)
    ELSE subsample_report(report_times, ts, status1, 0, 0, None, Empty0)
\* subsample up to report_status1 = scipy.array(report_status1)
subsample_status1(report_times, ts, status1) ==
    IF Len0(report_times) = 0 \/ Len0(ts) = 0 THEN Built(Raised("IndexError"), <<>>)
    ELSE IF Gt(ts[0], report_times[0]) THEN Built(Raised("EoNError"), <<>>)
    ELSE subsample_report(report_times, ts, status1, 0, 0, None, Empty0)

\* subsample(report_times, times, status1, status2, status3), had it
\* returned the second status first
subsample_second_first(report_times, ts, status1, status2, status3) ==
    LET r1 == subsample_status1(report_times, ts, status1)
        r2 == subsample_status1(report_times, ts, status2.val)
        r3 == subsample_status1(report_times, ts, status3.val)
    IN  IF r1.exc # "none" THEN r1
        ELSE IF ~status2.given THEN r1
        ELSE IF r2.exc # "none" THEN Built(r2, r1.built \o r2.built)
        ELSE IF ~status3.given
        THEN Built(Returned(<<r2.val, r1.val>>), r1.built \o r2.built)
        ELSE IF r3.exc # "none" THEN Built(r3, r1.built \o r2.built \o r3.built)
        ELSE Built(Returned(<<r2.val, r1.val, r3.val>>),
                   r1.built \o r2.built \o r3.built)
\* subsample(report_times, times, status1, status2, status3): the recursion
\* on the remaining statuses unrolled, at most two levels deep
subsample(report_times, ts, status1, status2, status3) ==
    LET r1 == subsample_status1(report_times, ts, status1)
        r2 == subsample_status1(report_times, ts, status2.val)
        r3 == subsample_status1(report_times, ts, status3.val)
    IN  IF r1.exc # "none" THEN r1
        ELSE IF ~status2.given THEN r1
        ELSE IF r2.exc # "none" THEN Built(r2, r1.built \o r2.built)
        ELSE IF ~status3.given
        THEN Built(Returned(<<r1.val, r2.val>>), r1.built \o r2.built)
        ELSE IF r3.exc # "none" THEN Built(r3, r1.built \o r2.built \o r3.built)
        ELSE Built(Returned(<<r1.val, r2.val, r3.val>>),
                   r1.built \o r2.built \o r3.built)

\* ordered arrays of up to MaxObs times out of 0, 1, 2
Ordered(a) == \A i \in DOMAIN a : \A j \in DOMAIN a : i < j => ~Gt(a[i], a[j])
TimeArrays ==
    { a \in UNION { [0 .. len - 1 -> { Zero, One, Num(2) }] : len \in 0 .. MaxObs } :
        Ordered(a) }

Call_subsample ==
    /\ pc = "ready"
    /\ \E report_times \in TimeArrays, ts \in TimeArrays :
       \E status1 \in [DOMAIN ts -> { 1, 2 }], form \in 1 .. 3 :
        LET status2 == IF form >= 2 THEN Some([i \in DOMAIN ts |-> 3 - status1[i]]) ELSE None
            status3 == IF form = 3 THEN Some([i \in DOMAIN ts |-> 4 + status1[i]]) ELSE None
            o == subsample(report_times, ts, status1, status2, status3)
        IN  /\ fn' = "subsample"
            /\ args' = [report_times |-> report_times, times |-> ts, status1 |-> status1,
                        status2 |-> status2, status3 |-> status3]
            /\ out' = [exc |-> o.exc, val |-> o.val]
            /\ V' = o.built
            /\ pc' = IF o.exc = "none" THEN "returned" ELSE "raised"
    /\ UNCHANGED <<applied, stepper, G, V0, ncalls, its, theta>>

NextSubsample ==
    \/ Call_subsample

SpecSubsample == InitAttack /\ [][NextSubsample]_vars

---------------------------------------------------------------------------
(* The *_from_graph wrappers.  A wrapper computes an initial condition and *)
(* ends in a call of a driver; its outcome here is the exception it raised *)
(* or that call: the driver's name, the initial condition and the          *)
(* arguments tau, gamma, tmin, tmax, tcount, return_full_data as the       *)
(* driver receives them (an argument the wrapper does not pass arrives as  *)
(* the driver's default), with the wrapper's own rho at that point.        *)

get_Pk(g) ==
    IF ~Resolves("Counter") THEN Raised("NameError")   \* Counter(...), line 184
    ELSE Returned([k \in degree_values(g) |-> Frac(degree_count(g, k), order(g))])

\* "if rho is None: rho = 1./G.order()"
rho_default(g, rho) ==
    IF rho.given THEN Returned(rho.val)
    ELSE IF order(g) = 0 THEN Raised("ZeroDivisionError")
    ELSE Returned(Frac(1, order(g)))

\* get_Nk_and_IC_as_arrays called with a rho that may still be None: 1-rho
\* on None is a TypeError
extract_Nk(g, rho, SIR) ==
    IF rho.given THEN get_Nk_and_IC_as_arrays(g, rho.val, SIR)
    ELSE IF ~Resolves("Counter") THEN Raised("NameError")
    ELSE IF g.nodes = {} THEN Raised("ValueError")
    ELSE Raised("TypeError")

Delegation(driver, rho, ic, tau, gamma, tmin, tmax, tcount, return_full_data) ==
    Returned([driver |-> driver, rho |-> rho, ic |-> ic, tau |-> tau, gamma |-> gamma,
              tmin |-> tmin, tmax |-> tmax, tcount |-> tcount,
              return_full_data |-> return_full_data])

\* sum(k*Pk[k] for k in Pk.keys())
mean_degree(Pk) == SumOver([k \in DOMAIN Pk |-> Mul(Num(k), Pk[k])], DOMAIN Pk)

\* scipy.dot(a, ks) with ks = 0, 1, ..., len(a)-1
DotKs(a) == SumOver([k \in DOMAIN a |-> Mul(a[k], Num(k))], DOMAIN a)

\* the initial condition both homogeneous pairwise wrappers compute
homogeneous_pairwise_IC(g, rho, Pk) ==
    LET n == mean_degree(Pk)
        N == Num(order(g))
    IN  [S0  |-> Mul(Sub(One, rho), N),
         I0  |-> Mul(rho, N),
         SI0 |-> Mul4(Sub(One, rho), N, n, rho),
         SS0 |-> Mul4(Sub(One, rho), N, n, Sub(One, rho)),
         n   |-> n]

SIS_homogeneous_pairwise_from_graph(g, tau, gamma, rho, tmin, tmax, tcount, return_full_data) ==
    LET r  == rho_default(g, rho)
        Pk == get_Pk(g)
    IN  IF r.exc # "none" THEN r
        ELSE IF Pk.exc # "none" THEN Pk
        ELSE Delegation("SIS_homogeneous_pairwise", r.val,
                        homogeneous_pairwise_IC(g, r.val, Pk.val),
                        tau, gamma, tmin, tmax, tcount, return_full_data)

SIR_homogeneous_pairwise_from_graph(g, tau, gamma, rho, tmin, tmax, tcount, return_full_data) ==
    LET r  == rho_default(g, rho)
        Pk == get_Pk(g)
    IN  IF r.exc # "none" THEN r
        ELSE IF Pk.exc # "none" THEN Pk
        ELSE Delegation("SIR_homogeneous_pairwise", r.val,
                        [R0 |-> Zero] @@ homogeneous_pairwise_IC(g, r.val, Pk.val),
                        tau, gamma, tmin, tmax, tcount, return_full_data)

SIS_heterogeneous_meanfield_from_graph(g, tau, gamma, rho, tmin, tmax, tcount, return_full_data) ==
    LET r == rho_default(g, rho)
        e == get_Nk_and_IC_as_arrays(g, r.val, FALSE)
    IN  IF r.exc # "none" THEN r
        ELSE IF e.exc # "none" THEN e
        ELSE Delegation("SIS_heterogeneous_meanfield", r.val,
                        [Sk0 |-> e.val[2], Ik0 |-> e.val[3]],
                        tau, gamma, tmin, tmax, tcount, return_full_data)

\* the driver is called with return_full_data=False whatever the caller asked
SIR_heterogeneous_meanfield_from_graph(g, tau, gamma, rho, tmin, tmax, tcount, return_full_data) ==
    LET r == rho_default(g, rho)
        e == get_Nk_and_IC_as_arrays(g, r.val, TRUE)
    IN  IF r.exc # "none" THEN r
        ELSE IF e.exc # "none" THEN e
        ELSE Delegation("SIR_heterogeneous_meanfield", r.val,
                        [Sk0 |-> e.val[2], Ik0 |-> e.val[3], Rk0 |-> e.val[4]],
                        tau, gamma, tmin, tmax, tcount, FALSE)

\* [a[k] for k in Ks]
TakeKs(a, Ks) == [i \in DOMAIN Ks |-> a[Ks[i]]]

SIS_heterogeneous_pairwise_from_graph(g, tau, gamma, rho, tmin, tmax, tcount, return_full_data) ==
    LET r == rho_default(g, rho)
        e == get_Nk_and_IC_as_arrays(g, r.val, FALSE)
        q == get_NkNl_and_IC_as_arrays(g, r.val, TRUE, FALSE)
    IN  IF r.exc # "none" THEN r
        ELSE IF e.exc # "none" THEN e
        ELSE IF q.exc # "none" THEN q
        ELSE Delegation("SIS_heterogeneous_pairwise", r.val,
                        [Sk0 |-> TakeKs(e.val[2], q.val[5]), Ik0 |-> TakeKs(e.val[3], q.val[5]),
                         SkSl0 |-> q.val[2], SkIl0 |-> q.val[3], IkIl0 |-> q.val[4],
                         Ks |-> q.val[5]],
                        tau, gamma, tmin, tmax, tcount, return_full_data)

SIR_heterogeneous_pairwise_from_graph(g, tau, gamma, rho, tmin, tmax, tcount, return_full_data) ==
    LET r == rho_default(g, rho)
        e == get_Nk_and_IC_as_arrays(g, r.val, TRUE)
        q == get_NkNl_and_IC_as_arrays(g, r.val, TRUE, TRUE)
    IN  IF r.exc # "none" THEN r
        ELSE IF e.exc # "none" THEN e
        ELSE IF q.exc # "none" THEN q
        ELSE Delegation("SIR_heterogeneous_pairwise", r.val,
                        [Sk0 |-> TakeKs(e.val[2], q.val[4]), Ik0 |-> TakeKs(e.val[3], q.val[4]),
                         Rk0 |-> TakeKs(e.val[4], q.val[4]),
                         SkSl0 |-> q.val[2], SkIl0 |-> q.val[3], Ks |-> q.val[4]],
                        tau, gamma, tmin, tmax, tcount, return_full_data)

SIS_compact_pairwise_from_graph(g, tau, gamma, rho, tmin, tmax, tcount, return_full_data) ==
    LET r  == rho_default(g, rho)
        Pk == get_Pk(g)
    IN  IF r.exc # "none" THEN r
        ELSE IF Pk.exc # "none" THEN Pk
        ELSE IF DOMAIN Pk.val = {} THEN Raised("ValueError")   \* max() of no keys
        ELSE
        LET maxk == SetMax(DOMAIN Pk.val)
            Nk   == [k \in 0 .. maxk |->
                        Mul(Num(order(g)), IF k \in DOMAIN Pk.val THEN Pk.val[k] ELSE Zero)]
            S    == Sub(One, r.val)
            kNk  == DotKs(Nk)
        IN  Delegation("SIS_compact_pairwise", r.val,
                       [Sk0 |-> [k \in DOMAIN Nk |-> Mul(S, Nk[k])],
                        Ik0 |-> [k \in DOMAIN Nk |-> Mul(r.val, Nk[k])],
                        SI0 |-> Mul3(kNk, S, r.val), SS0 |-> Mul3(kNk, S, S),
                        II0 |-> Mul3(kNk, r.val, r.val)],
                       tau, gamma, tmin, tmax, tcount, return_full_data)

SIR_compact_pairwise_from_graph(g, tau, gamma, rho, tmin, tmax, tcount, return_full_data) ==
    LET r == rho_default(g, rho)
        e == get_Nk_and_IC_as_arrays(g, r.val, TRUE)
    IN  IF r.exc # "none" THEN r
        ELSE IF e.exc # "none" THEN e
        ELSE LET SX0 == DotKs(e.val[2])
             IN  Delegation("SIR_compact_pairwise", r.val,
                            [Sk0 |-> e.val[2], I0 |-> SumArr(e.val[3]), R0 |-> Zero,
                             SS0 |-> Mul(Sub(One, r.val), SX0), SI0 |-> Mul(r.val, SX0)],
                            tau, gamma, tmin, tmax, tcount, return_full_data)

\* an argument the delegated function takes no such parameter for
NoArg == "absent"

SIS_super_compact_pairwise_from_graph(g, tau, gamma, rho, tmin, tmax, tcount, return_full_data) ==
    LET r  == rho_default(g, rho)
        e  == get_Nk_and_IC_as_arrays(g, r.val, FALSE)
        Pk == get_Pk(g)
    IN  IF r.exc # "none" THEN r
        ELSE IF e.exc # "none" THEN e
        ELSE IF Pk.exc # "none" THEN Pk
        ELSE
        LET Nk  == e.val[1]
            SX0 == DotKs(e.val[2])
            Pks == [k \in DOMAIN Nk |-> IF k \in DOMAIN Pk.val THEN Pk.val[k] ELSE Zero]
        IN  Delegation("SIS_super_compact_pairwise", r.val,
                       [S0 |-> SumArr(e.val[2]), I0 |-> SumArr(e.val[3]),
                        SS0 |-> Mul(Sub(One, r.val), SX0), SI0 |-> Mul(r.val, SX0),
                        II0 |-> Sub(Num(IntSumOver([k \in DOMAIN Nk |-> Nk[k] * k], DOMAIN Nk)), SX0),
                        k_ave |-> DotKs(Pks),
                        ksquare_ave |-> DotKs([k \in DOMAIN Pks |-> Mul(Pks[k], Num(k))]),
                        kcube_ave |-> DotKs([k \in DOMAIN Pks |-> Mul(Pks[k], Num(k * k))])],
                       tau, gamma, tmin, tmax, tcount, return_full_data)

\* psihat, psihatPrime and psihatDPrime are (1-rho) times the sums over Pk;
\* they are passed as the pair of that factor and Pk
SIR_super_compact_pairwise_from_graph(g, tau, gamma, rho, tmin, tmax, tcount, return_full_data) ==
    LET r  == rho_default(g, rho)
        e  == get_Nk_and_IC_as_arrays(g, r.val, TRUE)
        Pk == get_Pk(g)
    IN  IF r.exc # "none" THEN r
        ELSE IF e.exc # "none" THEN e
        ELSE IF Pk.exc # "none" THEN Pk
        ELSE LET SX0 == DotKs(e.val[2])
             IN  Delegation("SIR_super_compact_pairwise", r.val,
                            [SS0 |-> Mul(Sub(One, r.val), SX0), SI0 |-> Mul(r.val, SX0),
                             R0 |-> Zero, N |-> order(g),
                             psihat |-> [factor |-> Sub(One, r.val), Pk |-> Pk.val]],
                            tau, gamma, tmin, tmax, tcount, return_full_data)

RECURSIVE binom(_, _)
binom(n, k) == IF k = 0 \/ k = n THEN 1 ELSE binom(n - 1, k - 1) + binom(n - 1, k)

\* the lattice both effective degree wrappers fill from a per-degree array
effective_degree_lattice(Xk0, rho) ==
    [s \in DOMAIN Xk0 |-> [i \in DOMAIN Xk0 |->
        IF i < Len0(Xk0) - s
        THEN Mul4(Xk0[s + i], Num(binom(s + i, i)), Pow(rho, i), Pow(Sub(One, rho), s))
        ELSE Zero]]

\* no "if rho is None" here: rho reaches the extractor as the caller gave it
SIS_effective_degree_from_graph(g, tau, gamma, rho, tmin, tmax, tcount, return_full_data) ==
    LET e == extract_Nk(g, rho, TRUE)
    IN  IF e.exc # "none" THEN e
        ELSE Delegation("SIS_effective_degree", rho.val,
                        [S_si0 |-> effective_degree_lattice(e.val[2], rho.val),
                         I_si0 |-> effective_degree_lattice(e.val[3], rho.val)],
                        tau, gamma, tmin, tmax, tcount, return_full_data)

\* no "if rho is None" here either
SIR_effective_degree_from_graph(g, tau, gamma, rho, tmin, tmax, tcount, return_full_data) ==
    LET e == extract_Nk(g, rho, TRUE)
    IN  IF e.exc # "none" THEN e
        ELSE Delegation("SIR_effective_degree", rho.val,
                        [S_si0 |-> effective_degree_lattice(e.val[2], rho.val),
                         I0 |-> SumArr(e.val[3]), R0 |-> SumArr(e.val[4])],
                        tau, gamma, tmin, tmax, tcount, return_full_data)

SIS_compact_effective_degree_from_graph(g, tau, gamma, rho, tmin, tmax, tcount, return_full_data) ==
    SIS_compact_pairwise_from_graph(g, tau, gamma, rho, tmin, tmax, tcount, return_full_data)

\* no "if rho is None" here either
SIR_compact_effective_degree_from_graph(g, tau, gamma, rho, tmin, tmax, tcount, return_full_data) ==
    LET e == extract_Nk(g, rho, TRUE)
    IN  IF e.exc # "none" THEN e
        ELSE LET Nk == e.val[1]
             IN  Delegation("SIR_compact_effective_degree", rho.val,
                            [Skappa0 |-> e.val[2],
                             I0 |-> Mul(Num(IntSumOver(Nk, DOMAIN Nk)), rho.val),
                             R0 |-> Zero,
                             SI0 |-> Mul(DotKs(e.val[2]), rho.val)],
                            tau, gamma, tmin, tmax, tcount, return_full_data)

\* EBCM_discrete_uniform_introduction takes neither tmin nor tcount, and it
\* is called with return_full_data=False whatever the caller asked
EBCM_discrete_from_graph(g, p, rho, tmin, tmax, tcount, return_full_data) ==
    LET r  == rho_default(g, rho)
        Pk == get_Pk(g)
    IN  IF r.exc # "none" THEN r
        ELSE IF Pk.exc # "none" THEN Pk
        ELSE Delegation("EBCM_discrete_uniform_introduction", r.val,
                        [N |-> order(g), psi |-> Pk.val, p |-> p, rho |-> r.val],
                        NoArg, NoArg, NoArg, tmax, NoArg, FALSE)

\* tmin and tcount are not passed: the driver runs with its defaults 0 and 1001
EBCM_from_graph(g, tau, gamma, rho, tmin, tmax, tcount, return_full_data) ==
    LET r  == rho_default(g, rho)
        Pk == get_Pk(g)
    IN  IF r.exc # "none" THEN r
        ELSE IF Pk.exc # "none" THEN Pk
        ELSE Delegation("EBCM_uniform_introduction", r.val,
                        [N |-> order(g), psi |-> Pk.val, rho |-> r.val],
                        tau, gamma, 0, tmax, 1001, return_full_data)

---------------------------------------------------------------------------
(* Specification SpecWrapper: every *_from_graph wrapper called once on    *)
(* every small graph, with and without rho, with default and non-default   *)
(* report-time arguments                                                   *)

WrapperCalls ==
    [tau : { One }, gamma : { One }, rho : { None, Some(Frac(1, 2)) },
     tmin : { 0, 1 }, tmax : { 100, 2 }, tcount : { 1001, 3 },
     return_full_data : BOOLEAN]

FromGraphWrappers ==
    { "SIS_homogeneous_pairwise_from_graph",
      "SIR_homogeneous_pairwise_from_graph",
      "SIS_heterogeneous_meanfield_from_graph",
      "SIR_heterogeneous_meanfield_from_graph",
      "SIS_heterogeneous_pairwise_from_graph",
      "SIR_heterogeneous_pairwise_from_graph",
      "SIS_compact_pairwise_from_graph",
      "SIR_compact_pairwise_from_graph",
      "SIS_super_compact_pairwise_from_graph",
      "SIR_super_compact_pairwise_from_graph",
      "SIS_effective_degree_from_graph",
      "SIR_effective_degree_from_graph",
      "SIS_compact_effective_degree_from_graph",
      "SIR_compact_effective_degree_from_graph",
      "EBCM_discrete_from_graph",
      "EBCM_from_graph" }

InitWrapper ==
    /\ G \in Graphs
    /\ fn = "none" /\ args = <<>> /\ pc = "ready"
    /\ V0 = NoVec /\ V = <<>> /\ ncalls = 0 /\ its = 0 /\ theta = Zero
    /\ out = Raised("none")
    /\ stepper = NoStepper
    /\ applied = NoApplication

\* the call of the wrapper name with arguments a ended as o
Wraps(name, a, o) ==
    /\ fn' = name
    /\ args' = a
    /\ out' = o
    /\ pc' = (IF o.exc = "none" THEN "returned" ELSE "raised")
    /\ UNCHANGED <<applied, stepper, G, V0, V, ncalls, its, theta>>

Call_SIS_homogeneous_pairwise_from_graph ==
    /\ pc = "ready"
    /\ \E a \in WrapperCalls :
           Wraps("SIS_homogeneous_pairwise_from_graph", a,
                 SIS_homogeneous_pairwise_from_graph(G, a.tau, a.gamma, a.rho, a.tmin, a.tmax, a.tcount,
                                                         a.return_full_data))

Call_SIR_homogeneous_pairwise_from_graph ==
    /\ pc = "ready"
    /\ \E a \in WrapperCalls :
           Wraps("SIR_homogeneous_pairwise_from_graph", a,
                 SIR_homogeneous_pairwise_from_graph(G, a.tau, a.gamma, a.rho, a.tmin, a.tmax, a.tcount,
                                                         a.return_full_data))

Call_SIS_heterogeneous_meanfield_from_graph ==
    /\ pc = "ready"
    /\ \E a \in WrapperCalls :
           Wraps("SIS_heterogeneous_meanfield_from_graph", a,
                 SIS_heterogeneous_meanfield_from_graph(G, a.tau, a.gamma, a.rho, a.tmin, a.tmax, a.tcount,
                                                            a.return_full_data))

Call_SIR_heterogeneous_meanfield_from_graph ==
    /\ pc = "ready"
    /\ \E a \in WrapperCalls :
           Wraps("SIR_heterogeneous_meanfield_from_graph", a,
                 SIR_heterogeneous_meanfield_from_graph(G, a.tau, a.gamma, a.rho, a.tmin, a.tmax, a.tcount,
                                                            a.return_full_data))

Call_SIS_heterogeneous_pairwise_from_graph ==
    /\ pc = "ready"
    /\ \E a \in WrapperCalls :
           Wraps("SIS_heterogeneous_pairwise_from_graph", a,
                 SIS_heterogeneous_pairwise_from_graph(G, a.tau, a.gamma, a.rho, a.tmin, a.tmax, a.tcount,
                                                           a.return_full_data))

Call_SIR_heterogeneous_pairwise_from_graph ==
    /\ pc = "ready"
    /\ \E a \in WrapperCalls :
           Wraps("SIR_heterogeneous_pairwise_from_graph", a,
                 SIR_heterogeneous_pairwise_from_graph(G, a.tau, a.gamma, a.rho, a.tmin, a.tmax, a.tcount,
                                                           a.return_full_data))

Call_SIS_compact_pairwise_from_graph ==
    /\ pc = "ready"
    /\ \E a \in WrapperCalls :
           Wraps("SIS_compact_pairwise_from_graph", a,
                 SIS_compact_pairwise_from_graph(G, a.tau, a.gamma, a.rho, a.tmin, a.tmax, a.tcount,
                                                     a.return_full_data))

Call_SIR_compact_pairwise_from_graph ==
    /\ pc = "ready"
    /\ \E a \in WrapperCalls :
           Wraps("SIR_compact_pairwise_from_graph", a,
                 SIR_compact_pairwise_from_graph(G, a.tau, a.gamma, a.rho, a.tmin, a.tmax, a.tcount,
                                                     a.return_full_data))

Call_SIS_super_compact_pairwise_from_graph ==
    /\ pc = "ready"
    /\ \E a \in WrapperCalls :
           Wraps("SIS_super_compact_pairwise_from_graph", a,
                 SIS_super_compact_pairwise_from_graph(G, a.tau, a.gamma, a.rho, a.tmin, a.tmax, a.tcount,
                                                           a.return_full_data))

Call_SIR_super_compact_pairwise_from_graph ==
    /\ pc = "ready"
    /\ \E a \in WrapperCalls :
           Wraps("SIR_super_compact_pairwise_from_graph", a,
                 SIR_super_compact_pairwise_from_graph(G, a.tau, a.gamma, a.rho, a.tmin, a.tmax, a.tcount,
                                                           a.return_full_data))

Call_SIS_effective_degree_from_graph ==
    /\ pc = "ready"
    /\ \E a \in WrapperCalls :
           Wraps("SIS_effective_degree_from_graph", a,
                 SIS_effective_degree_from_graph(G, a.tau, a.gamma, a.rho, a.tmin, a.tmax, a.tcount,
                                                     a.return_full_data))

Call_SIR_effective_degree_from_graph ==
    /\ pc = "ready"
    /\ \E a \in WrapperCalls :
           Wraps("SIR_effective_degree_from_graph", a,
                 SIR_effective_degree_from_graph(G, a.tau, a.gamma, a.rho, a.tmin, a.tmax, a.tcount,
                                                     a.return_full_data))

Call_SIS_compact_effective_degree_from_graph ==
    /\ pc = "ready"
    /\ \E a \in WrapperCalls :
           Wraps("SIS_compact_effective_degree_from_graph", a,
                 SIS_compact_effective_degree_from_graph(G, a.tau, a.gamma, a.rho, a.tmin, a.tmax, a.tcount,
                                                             a.return_full_data))

Call_SIR_compact_effective_degree_from_graph ==
    /\ pc = "ready"
    /\ \E a \in WrapperCalls :
           Wraps("SIR_compact_effective_degree_from_graph", a,
                 SIR_compact_effective_degree_from_graph(G, a.tau, a.gamma, a.rho, a.tmin, a.tmax, a.tcount,
                                                             a.return_full_data))

Call_EBCM_discrete_from_graph ==
    /\ pc = "ready"
    /\ \E a \in WrapperCalls :
           Wraps("EBCM_discrete_from_graph", a,
                 EBCM_discrete_from_graph(G, a.tau, a.rho, a.tmin, a.tmax, a.tcount,
                                              a.return_full_data))

Call_EBCM_from_graph ==
    /\ pc = "ready"
    /\ \E a \in WrapperCalls :
           Wraps("EBCM_from_graph", a,
                 EBCM_from_graph(G, a.tau, a.gamma, a.rho, a.tmin, a.tmax, a.tcount,
                                     a.return_full_data))

NextWrapper ==
    \/ Call_SIS_homogeneous_pairwise_from_graph
    \/ Call_SIR_homogeneous_pairwise_from_graph
    \/ Call_SIS_heterogeneous_meanfield_from_graph
    \/ Call_SIR_heterogeneous_meanfield_from_graph
    \/ Call_SIS_heterogeneous_pairwise_from_graph
    \/ Call_SIR_heterogeneous_pairwise_from_graph
    \/ Call_SIS_compact_pairwise_from_graph
    \/ Call_SIR_compact_pairwise_from_graph
    \/ Call_SIS_super_compact_pairwise_from_graph
    \/ Call_SIR_super_compact_pairwise_from_graph
    \/ Call_SIS_effective_degree_from_graph
    \/ Call_SIR_effective_degree_from_graph
    \/ Call_SIS_compact_effective_degree_from_graph
    \/ Call_SIR_compact_effective_degree_from_graph
    \/ Call_EBCM_discrete_from_graph
    \/ Call_EBCM_from_graph

SpecWrapper == InitWrapper /\ [][NextWrapper]_vars

---------------------------------------------------------------------------
(* Claims about the extractor                                              *)

NodesOfDegree(k) == Cardinality({ u \in G.nodes : degree(G, u) = k })

\* C2: for every graph, the table NkNl returned with withKs=True is
\* symmetric, and the row of every observed degree k sums to k times the
\* number of nodes of degree k.
C2_NkNlSymmetricRowSums ==
    (fn = "get_NkNl_and_IC_as_arrays" /\ args.withKs) =>
        /\ pc = "returned"
        /\ LET NkNl == out.val[1]
               Ks   == out.val[Len(out.val)]
           IN  /\ \A i, j \in DOMAIN NkNl : NkNl[i][j] = NkNl[j][i]
               /\ DOMAIN NkNl = DOMAIN Ks
               /\ \A i \in DOMAIN Ks :
                    IntSumOver(NkNl[i], DOMAIN NkNl[i]) = Ks[i] * NodesOfDegree(Ks[i])

\* a graph with two observed degrees, a self-loop-free edge between them
C2_Witness ==
    /\ fn = "get_NkNl_and_IC_as_arrays" /\ args.withKs /\ pc = "returned"
    /\ Len0(out.val[Len(out.val)]) = 2
    /\ out.val[1][0][1] = 2
    /\ Cardinality(G.edges) >= 2

\* C3: for every graph with at least one node, get_Nk_and_IC_as_arrays
\* returns Nk of length kmax+1, Nk[k] is the number of nodes of degree k, and
\* sum(Nk) is the order of the graph.
C3_NkCountsNodes ==
    (fn = "get_Nk_and_IC_as_arrays" /\ G.nodes # {}) =>
        /\ pc = "returned"
        /\ LET Nk == out.val[1]
           IN  /\ DOMAIN Nk = 0 .. SetMax(degree_values(G))
               /\ \A k \in DOMAIN Nk : Nk[k] = NodesOfDegree(k)
               /\ IntSumOver(Nk, DOMAIN Nk) = order(G)

\* C4: both indexing modes work for every graph (with a node): raw degree
\* values index a (kmax+1) x (kmax+1) table without withKs, positions in the
\* sorted list Ks index a len(Ks) x len(Ks) table with it, Ks returned last.
C4_BothIndexingModes ==
    (fn = "get_NkNl_and_IC_as_arrays" /\ G.nodes # {}) =>
        /\ pc = "returned"
        /\ LET NkNl == out.val[1]
               Ks   == Sorted(degree_values(G))
               kmax == SetMax(degree_values(G))
           IN  IF args.withKs
               THEN /\ out.val[Len(out.val)] = Ks
                    /\ DOMAIN NkNl = DOMAIN Ks
                    /\ \A i \in DOMAIN NkNl : DOMAIN NkNl[i] = DOMAIN Ks
               ELSE /\ DOMAIN NkNl = 0 .. kmax
                    /\ \A k \in DOMAIN NkNl :
                         /\ DOMAIN NkNl[k] = 0 .. kmax
                         /\ NodesOfDegree(k) = 0 =>
                              \A l \in 0 .. kmax : NkNl[k][l] = 0


---------------------------------------------------------------------------
(* Claims about the closure terms of the derivative evaluators             *)

HomogeneousEvaluators ==
    { "_dSIS_homogeneous_pairwise_", "_dSIR_homogeneous_pairwise_" }
PairBasedEvaluators ==
    { "_dSIS_pair_based_", "_dSIR_pair_based_", "_dSIR_pair_based2_" }
HeterogeneousEvaluators ==
    { "_dSIS_heterogeneous_pairwise_", "_dSIR_heterogeneous_pairwise_" }

\* the derivative a homogeneous evaluator returns when both closure terms
\* count as 0
HomogeneousWithoutClosure(f, a) ==
    IF f = "_dSIS_homogeneous_pairwise_"
    THEN LET II == Sub(Sub(Mul(a.N, a.n), a.X[2]), Mul(Num(2), a.X[1]))
         IN  Vec(<<Sub(Mul(a.gamma, Sub(a.N, a.X[0])), Mul(a.tau, a.X[1])),
                   Sub(Mul(a.gamma, Sub(II, a.X[1])), Mul(a.tau, a.X[1])),
                   Mul3(Num(2), a.gamma, a.X[1])>>)
    ELSE Vec(<<Neg(Mul(a.tau, a.X[2])),
               Sub(Mul(a.tau, a.X[2]), Mul(a.gamma, a.X[1])),
               Sub(Neg(Mul(a.gamma, a.X[2])), Mul(a.tau, a.X[2])),
               Zero>>)

\* C5: whenever a homogeneous pairwise evaluator is called in a state with
\* S == 0, it returns a fully defined derivative, equal to the one obtained
\* with both closure terms taken as 0.
C5_HomogeneousGuardsDivisionByS ==
    (pc = "returned" /\ fn \in HomogeneousEvaluators /\ args.X[0] = Zero)
        => /\ AllDefined(out.val)
           /\ out.val = HomogeneousWithoutClosure(fn, args)

\* the triple-closure terms a heterogeneous evaluator divides by [S_k] of
\* the class at position l
HetTermsThrough(a, l) ==
    LET kcount == Len0(a.Ks)
        off    == IF fn = "_dSIS_heterogeneous_pairwise_" THEN kcount ELSE 2 * kcount
        Sk     == Slice(a.X, 0, kcount)
        SkSl   == Reshape(Slice(a.X, off, off + kcount * kcount), kcount, kcount)
        SkIl   == Reshape(Slice(a.X, off + kcount * kcount, off + 2 * kcount * kcount),
                          kcount, kcount)
        c      == het_closures(Sk, SkSl, SkIl, a.Ks)
    IN  { c.SkSlI[k][l] : k \in 0 .. kcount - 1 } \cup
        { c.ISkIl[l][k] : k \in 0 .. kcount - 1 }

\* C6: in the pair-based and heterogeneous pairwise evaluators, a
\* triple-closure term whose denominator compartment (<X_i>, or [S_k] with
\* k >= 1) is exactly 0 evaluates to 0, and the returned derivative is fully
\* defined.
C6_ZeroDenominatorTermIsZero ==
    /\ (pc = "returned" /\ fn \in PairBasedEvaluators)
         => /\ AllDefined(out.val)
            /\ \A i \in 0 .. order(G) - 1 :
                 (IF fn = "_dSIS_pair_based_" THEN args.V[i] = One ELSE args.V[i] = Zero)
                   => \A a \in G.nodes, b \in G.nodes :
                        pb_triple(G, _get_rate_functions(One, One, "none", "none"), a, b,
                                  Frac(1, 2), Frac(1, 2),
                                  Inv(IF fn = "_dSIS_pair_based_"
                                      THEN [j \in 0 .. order(G) - 1 |-> Sub(One, args.V[j])]
                                      ELSE Slice(args.V, 0, order(G)))[i]) = Zero
    /\ (pc = "returned" /\ fn \in HeterogeneousEvaluators
          /\ \A l \in DOMAIN args.Ks : args.Ks[l] >= 1)
         => /\ AllDefined(out.val)
            /\ \A l \in DOMAIN args.Ks :
                 args.X[l] = Zero => HetTermsThrough(args, l) = { Zero }


---------------------------------------------------------------------------
(* Claims about the boundary of the effective degree lattice               *)

InLattice(s, i, original_shape) ==
    /\ 0 <= s /\ s < original_shape[0]
    /\ 0 <= i /\ i < original_shape[1]
\* the neighbour values the equations prescribe: the cell (s+ds, i+di) when
\* it is in the lattice, 0 otherwise
Padded(M, ds, di, original_shape) ==
    [s \in 0 .. original_shape[0] - 1 |-> [i \in 0 .. original_shape[1] - 1 |->
        IF InLattice(s + ds, i + di, original_shape) THEN M[s + ds][i + di] ELSE Zero]]
ArgSsi == Reshape(args.X, args.original_shape[0], args.original_shape[1])
ArgIsi ==
    Reshape(Slice(args.X, args.original_shape[0] * args.original_shape[1], Len0(args.X)),
            args.original_shape[0], args.original_shape[1])
\* every subscript the evaluator reads for a neighbour of a cell
NeighbourReads ==
    IF fn = "_dSIS_effective_degree_"
    THEN { SIS_sm1ip1_index(c[1], c[2], args.original_shape) : c \in Cells(args.original_shape) }
         \cup { SIS_sp1im1_index(c[1], c[2], args.original_shape) : c \in Cells(args.original_shape) }
    ELSE { SIR_sip1_index(c[1], c[2], args.original_shape) : c \in Cells(args.original_shape) }
         \cup { SIR_sp1im1_index(c[1], c[2], args.original_shape) : c \in Cells(args.original_shape) }

\* C7: after a call of an effective degree evaluator, every neighbour
\* subscript that was read lies inside the lattice (none is negative, none is
\* past the last index), nothing was raised, and the derivative returned is
\* the one in which every neighbour cell outside the lattice contributes 0.
C7_OutOfLatticeNeighbourContributesZero ==
    (pc # "ready" /\ fn \in { "_dSIS_effective_degree_", "_dSIR_effective_degree_" })
        => /\ out.exc = "none"
           /\ \A ix \in NeighbourReads \ { NoIndex } :
                InLattice(ix[1], ix[2], args.original_shape)
           /\ fn = "_dSIS_effective_degree_" =>
                out.val = dSIS_effective_degree_cells(ArgSsi, ArgIsi,
                              Padded(ArgSsi, -1, 1, args.original_shape),
                              Padded(ArgIsi, -1, 1, args.original_shape),
                              Padded(ArgSsi, 1, -1, args.original_shape),
                              Padded(ArgIsi, 1, -1, args.original_shape),
                              args.original_shape, args.tau, args.gamma)
           /\ fn = "_dSIR_effective_degree_" =>
                out.val = dSIR_effective_degree_cells(ArgSsi, args.X[Len0(args.X) - 1],
                              Padded(ArgSsi, 0, 1, args.original_shape),
                              Padded(ArgSsi, 1, -1, args.original_shape),
                              args.N, args.original_shape, args.tau, args.gamma)

\* a 2x2 SIS lattice whose last row is occupied, so that a subscript of -1
\* from row 0 would pick up a nonzero value, with a fully defined result
C7_Witness ==
    /\ pc = "returned" /\ fn = "_dSIS_effective_degree_"
    /\ args.original_shape = Vec(<<2, 2>>)
    /\ ArgSsi[1][1] = One /\ ArgSsi[1][0] = One
    /\ AllDefined(out.val)


---------------------------------------------------------------------------
(* Claims about the drivers                                                *)

\* C1: every named array a driver returns holds, at the first report time,
\* the initial value the caller supplied under that name: SI and SS of the
\* homogeneous pairwise drivers, SS and SI of SIR_compact_pairwise, SkIl and
\* SkSl of SIR_heterogeneous_pairwise (full data returned).
C1_ReturnedArraysStartAtSuppliedValues ==
    (pc = "returned" /\ args.return_full_data) =>
        /\ fn = "SIS_homogeneous_pairwise" =>
             out.val[4][0] = args.SI0 /\ out.val[5][0] = args.SS0
        /\ fn = "SIR_homogeneous_pairwise" =>
             out.val[5][0] = args.SI0 /\ out.val[6][0] = args.SS0
        /\ fn = "SIR_compact_pairwise" =>
             out.val[5][0] = args.SS0 /\ out.val[6][0] = args.SI0
        /\ fn = "SIR_heterogeneous_pairwise" =>
             \A k \in DOMAIN args.Sk0, l \in DOMAIN args.Sk0 :
                /\ out.val[8][k][l][0] = args.SkIl0[k][l]
                /\ out.val[9][k][l][0] = args.SkSl0[k][l]

\* the edge-count test of the homogeneous pairwise drivers on the arguments
TooManyEdges ==
    Gt(Add(args.SS0, Mul(Num(2), args.SI0)),
       Mul(args.n, Add(Add(args.S0, args.I0),
                       IF fn = "SIR_homogeneous_pairwise" THEN args.R0 ELSE Zero)))

\* C8: the homogeneous pairwise drivers raise EoNError exactly when
\* SS0 + 2*SI0 > n*N; when they raise the integrator has not been called,
\* and otherwise it has been called exactly once.
C8_EoNErrorIffTooManyEdges ==
    (pc # "ready" /\ fn \in { "SIS_homogeneous_pairwise", "SIR_homogeneous_pairwise" })
        => /\ out.exc = "EoNError" <=> TooManyEdges
           /\ out.exc # "none" => ncalls = 0
           /\ ~TooManyEdges => (out.exc = "none" /\ ncalls = 1)

\* the arguments of the call are dimensionally inconsistent
BadDimensions ==
    \/ /\ fn \in { "SIS_pair_based", "SIR_pair_based" }
       /\ \/ args.XY0.given /\ Shape(args.XY0.val) # <<Len0(args.Y0), Len0(args.Y0)>>
          \/ args.XX0.given /\ Shape(args.XX0.val) # <<Len0(args.Y0), Len0(args.Y0)>>
    \/ /\ fn = "SIS_heterogeneous_meanfield"
       /\ Len0(args.Sk0) # Len0(args.Ik0)
    \/ /\ fn = "SIR_heterogeneous_meanfield"
       /\ (Len0(args.Sk0) # Len0(args.Ik0) \/ Len0(args.Sk0) # Len0(args.Rk0))

\* C9: a pair-based driver given XY0 or XX0 of a shape other than (N,N),
\* and a heterogeneous meanfield driver given arrays of different lengths,
\* raises EoNError before the integrator is invoked and returns nothing.
C9_DimensionErrorBeforeIntegration ==
    (pc # "ready" /\ BadDimensions)
        => /\ out.exc = "EoNError"
           /\ ncalls = 0
           /\ pc = "raised"

---------------------------------------------------------------------------
(* Claims about the attack-rate fixed points                               *)

BothSupplied == args.rho.given /\ args.Sk0.given

\* C10: a call of Attack_rate_discrete or Attack_rate_cts_time that is over
\* has raised EoNError exactly when both rho and Sk0 were supplied, and then
\* it had performed no iteration; with at most one of them supplied it has
\* returned after exactly number_its passes of its loop.
C10_BothSuppliedRaisesElseExactIterations ==
    (fn \in { "Attack_rate_discrete", "Attack_rate_cts_time" } /\ pc \in { "raised", "returned" })
        => /\ out.exc = "EoNError" <=> BothSupplied
           /\ BothSupplied => its = 0
           /\ ~BothSupplied => (pc = "returned" /\ its = args.number_its)

---------------------------------------------------------------------------
(* Claims about the *_from_graph wrappers                                  *)

WrapperDone == fn \in FromGraphWrappers /\ pc # "ready" /\ G.nodes # {}

\* C11: a *_from_graph wrapper called on a graph with nodes and without rho
\* builds its initial condition, and it builds it with rho = 1/G.order().
C11_DefaultRhoIsOneOverOrder ==
    (WrapperDone /\ ~args.rho.given)
        => /\ out.exc = "none"
           /\ out.val.rho = Frac(1, order(G))

\* C12: a *_from_graph wrapper called on a graph with nodes ends in the call
\* of its driver, and the driver receives the caller's tmin, tmax, tcount
\* and return_full_data unchanged.
C12_ReportArgumentsPassedThrough ==
    WrapperDone
        => /\ out.exc = "none"
           /\ out.val.tmin = args.tmin
           /\ out.val.tmax = args.tmax
           /\ out.val.tcount = args.tcount
           /\ out.val.return_full_data = args.return_full_data

---------------------------------------------------------------------------
(* Claims about the tuples the heterogeneous drivers return                *)

\* C13: SIR_heterogeneous_meanfield given arrays of one length returns
\* (times, S, I, R), followed by Sk, Ik, Rk when return_full_data is set,
\* and SIS_heterogeneous_pairwise returns (times, S, I), followed by Sk, Ik,
\* SkIl, SkSl, IkIl when return_full_data is set; S, I and R are the sums
\* over the degrees of Sk, Ik and Rk.
C13_ReturnsTheDocumentedTuple ==
    /\ (fn = "SIR_heterogeneous_meanfield" /\ pc # "ready" /\ ~BadDimensions)
          => /\ out.exc = "none"
             /\ Len(out.val) = (IF args.return_full_data THEN 7 ELSE 4)
             /\ out.val[1] = times
             /\ args.return_full_data =>
                   /\ out.val[2] = SumAxis0(out.val[5], V)
                   /\ out.val[3] = SumAxis0(out.val[6], V)
                   /\ out.val[4] = SumAxis0(out.val[7], V)
    /\ (fn = "SIS_heterogeneous_pairwise" /\ pc # "ready")
          => /\ out.exc = "none"
             /\ Len(out.val) = (IF args.return_full_data THEN 8 ELSE 3)
             /\ out.val[1] = times
             /\ args.return_full_data =>
                   /\ out.val[2] = SumAxis0(out.val[4], V)
                   /\ out.val[3] = SumAxis0(out.val[5], V)

---------------------------------------------------------------------------
(* Claims about the arrays of the caller                                   *)

MatrixDrivers ==
    { "SIS_pair_based", "SIR_pair_based", "SIS_heterogeneous_pairwise",
      "SIR_heterogeneous_pairwise", "SIS_effective_degree", "SIR_effective_degree" }

\* C14: after a call of a driver that takes matrix-valued initial
\* conditions, whether it returned or raised, every array the caller passed
\* has the shape and the contents it had before the call.
C14_CallerArraysUnchanged ==
    (fn \in MatrixDrivers /\ pc # "ready")
        => \A x \in DOMAIN args.arrays :
              args.arrays[x] = ArrayObject(IF fn \in { "SIS_pair_based", "SIR_pair_based" }
                                           THEN args[x].val ELSE args[x])

---------------------------------------------------------------------------
(* Conservation of the totals of the homogeneous pairwise drivers          *)

HomogeneousPairwise == { "SIS_homogeneous_pairwise", "SIR_homogeneous_pairwise" }

\* the population the caller described: S0+I0, with R0 added for SIR
InitialTotal ==
    IF fn = "SIS_homogeneous_pairwise" THEN Add(args.S0, args.I0)
    ELSE Add(Add(args.S0, args.I0), args.R0)

\* the returned totals at report time t added up
ReportedTotal(t) ==
    IF fn = "SIS_homogeneous_pairwise" THEN Add(out.val[2][t], out.val[3][t])
    ELSE Add(Add(out.val[2][t], out.val[3][t]), out.val[4][t])

C15_WitnessSIR ==
    /\ fn = "SIR_homogeneous_pairwise" /\ pc = "returned"
    /\ args.R0 = One
    /\ out.val[2][1] # out.val[2][0]
    /\ out.val[3][1] # out.val[3][0]

---------------------------------------------------------------------------
(* The recurrence of EBCM_discrete                                         *)

\* the right-hand side of the recurrence for theta
NextTheta(x) ==
    Add(Sub(One, args.p),
        Mul(args.p, Add(args.phiR0,
                        Div(Mul(args.phiS0, psihatPrime(args.Pk, args.Sk0, x)),
                            psihatPrime(args.Pk, args.Sk0, One)))))

\* C16: EBCM_discrete returns times 0, 1, .., tmax and S, I, R of the same
\* length tmax+1.  At t = 0: theta = 1, S = N*psihat(1), R = R0,
\* I = N - S - R0.  At every t >= 1: theta(t) = (1-p) + p*(phiR0 +
\* phiS0*psihatPrime(theta(t-1))/psihatPrime(1)), R(t) = R(t-1) + I(t-1),
\* S(t) = N*psihat(theta(t)), I(t) = N - S(t) - R(t); S+I+R = N at every
\* t; with return_full_data theta is the fifth array.  The call ends
\* otherwise only when the divisor psihatPrime(1) is zero and tmax >= 1.
C16_DiscreteRecurrence ==
    /\ (fn = "EBCM_discrete" /\ pc = "returned")
         => LET t == out.val[1]
                S == out.val[2]
                I == out.val[3]
                R == out.val[4]
                th == V.theta
            IN  /\ Len(out.val) = (IF args.return_full_data THEN 5 ELSE 4)
                /\ args.return_full_data => out.val[5] = th
                /\ \A D \in { DOMAIN t, DOMAIN S, DOMAIN I, DOMAIN R, DOMAIN th } :
                       D = 0 .. args.tmax
                /\ \A i \in 0 .. args.tmax : t[i] = i
                /\ th[0] = One
                /\ S[0] = Mul(args.N, psihat(args.Pk, args.Sk0, One))
                /\ R[0] = args.R0
                /\ I[0] = Sub(Sub(args.N, S[0]), args.R0)
                /\ \A i \in 1 .. args.tmax :
                       /\ th[i] = NextTheta(th[i - 1])
                       /\ R[i] = Add(R[i - 1], I[i - 1])
                       /\ S[i] = Mul(args.N, psihat(args.Pk, args.Sk0, th[i]))
                       /\ I[i] = Sub(Sub(args.N, S[i]), R[i])
                /\ \A i \in 0 .. args.tmax : Add(Add(S[i], I[i]), R[i]) = args.N
    /\ (fn = "EBCM_discrete" /\ pc = "raised")
         => /\ psihatPrime(args.Pk, args.Sk0, One) = Zero
            /\ args.tmax >= 1

\* a returned run of at least two steps, with recovered nodes at time 0,
\* whose theta and whose R moved at both steps
C16_Witness ==
    /\ fn = "EBCM_discrete" /\ pc = "returned"
    /\ args.tmax >= 2 /\ args.R0 = One
    /\ V.theta[1] # One /\ V.theta[2] # V.theta[1]
    /\ out.val[4][1] # out.val[4][0] /\ out.val[4][2] # out.val[4][1]

---------------------------------------------------------------------------
(* The trajectory of my_odeint                                             *)

\* C17: my_odeint returns one row per entry of times, in their order, each
\* of the length of V0; row 0 is V0; the stepper was advanced once to each
\* of times[1:], in order, and row i is the state that advance returned;
\* every derivative the stepper asked for was dfunc(X, t, *args) at the
\* stepper's state X and time t with the caller's args.  The call ends
\* otherwise only for an empty times, where times[0] raises IndexError.
C17_OneRowPerTime ==
    /\ (fn = "my_odeint" /\ pc = "returned")
         => LET ts   == args.times
                rows == out.val
            IN  /\ DOMAIN rows = DOMAIN ts
                /\ \A i \in DOMAIN rows : DOMAIN rows[i] = DOMAIN args.V0
                /\ rows[0] = args.V0
                /\ Len(stepper.integrated) = Len0(ts) - 1
                /\ Len(stepper.calls) = Len0(ts) - 1
                /\ \A i \in 1 .. Len0(ts) - 1 :
                       /\ stepper.integrated[i] = [time |-> ts[i], y |-> rows[i]]
                       /\ stepper.calls[i] =
                              [X |-> rows[i - 1], t |-> ts[i - 1], args |-> args.args]
                       /\ rows[i] =
                              [k \in DOMAIN args.V0 |->
                                  Add(rows[i - 1][k],
                                      Mul(Sub(ts[i], ts[i - 1]),
                                          dfunc(args.dfunc, rows[i - 1], ts[i - 1],
                                                args.args)[k]))]
    /\ (fn = "my_odeint" /\ pc = "raised")
         => Len0(args.times) = 0 /\ out.exc = "IndexError"

\* a returned trajectory of three rows whose times are not increasing and
\* whose rows all differ
C17_Witness ==
    /\ fn = "my_odeint" /\ pc = "returned"
    /\ Len0(args.times) = 3
    /\ Gt(args.times[1], args.times[2])
    /\ out.val[1] # out.val[0] /\ out.val[2] # out.val[1] /\ out.val[2] # out.val[0]

---------------------------------------------------------------------------
(* The generating functions                                                *)

\* the sum over the keys k of Pk[k]*x^k
PsiSum(Pk, x) == SumOver([k \in DOMAIN Pk |-> Mul(Pk[k], Pow(x, k))], DOMAIN Pk)
\* the sum over the keys k of k*Pk[k]*x^(k-1), the key 0 contributing zero
PsiPrimeSum(Pk, x) ==
    SumOver([k \in DOMAIN Pk |->
                IF k = 0 THEN Zero ELSE Mul(Mul(Num(k), Pk[k]), Pow(x, k - 1))],
            DOMAIN Pk)

\* C18: for a dict Pk whose keys may skip degrees and a number x,
\* get_Psi(Pk)(x) returns the number sum_k Pk[k]*x^k and get_PsiPrime(Pk)(x)
\* returns the number sum_k k*Pk[k]*x^(k-1), the sums running over the keys.
C18_GeneratingFunctions ==
    /\ (fn = "get_Psi" /\ pc # "ready")
         => /\ out.exc = "none"
            /\ out.val.kind = "scalar"
            /\ out.val.val = PsiSum(args.Pk, args.x)
    /\ (fn = "get_PsiPrime" /\ pc # "ready")
         => /\ out.exc = "none"
            /\ out.val.kind = "scalar"
            /\ out.val.val = PsiPrimeSum(args.Pk, args.x)

---------------------------------------------------------------------------
(* The rate functions                                                      *)

C19_WitnessTransmission ==
    /\ fn = "_get_rate_functions" /\ pc = "returned"
    /\ args.transmission_weight # "none" /\ args.recovery_weight = "none"
    /\ applied.f = "trans_rate_fxn" /\ applied.exc = "none"
    /\ applied.val # args.tau

---------------------------------------------------------------------------
(* Sampling at the observation times                                       *)

\* subsample(times, times, status) with one status as long as times
SampledAtObservations ==
    /\ fn = "subsample" /\ pc # "ready"
    /\ args.report_times = args.times
    /\ Len0(args.times) > 0
    /\ ~args.status2.given

Increasing(a) == \A i \in DOMAIN a : \A j \in DOMAIN a : i < j => Gt(a[j], a[i])

\* C20 as stated: for a non-empty non-decreasing times and a status of the
\* same length, subsample(times, times, status) returns an array equal to
\* status, element for element.
C20_Original ==
    SampledAtObservations => out = Returned(args.status1)

\* C20: for a non-empty strictly increasing times and a status of the same
\* length, subsample(times, times, status) returns an array equal to
\* status, element for element.
C20_SamplingAtObservationTimes ==
    (SampledAtObservations /\ Increasing(args.times)) => out = Returned(args.status1)

\* three observations at increasing times whose status changes
C20_Witness ==
    /\ SampledAtObservations /\ Increasing(args.times)
    /\ Len0(args.times) = 3
    /\ args.status1[0] # args.status1[1] /\ args.status1[1] # args.status1[2]
    /\ pc = "returned"

---------------------------------------------------------------------------
(* Sampling at report times                                                *)

\* a call of subsample on non-empty report_times and times
Sampled == fn = "subsample" /\ pc # "ready" /\ Len0(args.report_times) > 0 /\ Len0(args.times) > 0

\* the first report time is not before the first observation
StartsInRange == ~Gt(args.times[0], args.report_times[0])

\* the largest index j with times[j] <= t
LastObservation(t) ==
    CHOOSE j \in DOMAIN args.times :
        /\ ~Gt(args.times[j], t)
        /\ \A i \in DOMAIN args.times : ~Gt(args.times[i], t) => i <= j

\* status sampled at the report times as the claim describes it
Held(status) == [r \in DOMAIN args.report_times |-> status[LastObservation(args.report_times[r])]]

\* C21: for ordered times and report_times with report_times[0] >= times[0]
\* subsample returns one value per report time, entry r being the status at
\* the largest index j with times[j] <= report_times[r] (so the last status
\* for every report time after the last observation); with status2 and
\* status3 given it returns the same for each, in the order status1,
\* status2, status3.
C21_HoldsLastObservation ==
    (Sampled /\ StartsInRange)
        => out = Returned(IF ~args.status2.given THEN Held(args.status1)
                          ELSE IF ~args.status3.given
                          THEN <<Held(args.status1), Held(args.status2.val)>>
                          ELSE <<Held(args.status1), Held(args.status2.val),
                                 Held(args.status3.val)>>)

\* three statuses sampled at report times that run past the last
\* observation, the status having changed between the observations
C21_Witness ==
    /\ Sampled /\ StartsInRange /\ pc = "returned"
    /\ args.status3.given
    /\ Len0(args.times) >= 2 /\ args.status1[0] # args.status1[Len0(args.times) - 1]
    /\ Len0(args.report_times) >= 2
    /\ Gt(args.report_times[Len0(args.report_times) - 1], args.times[Len0(args.times) - 1])
    /\ Gt(args.times[1], args.report_times[0])

\* C22: in each of its call forms subsample raises EoNError when
\* report_times[0] < times[0], having created no list of output values, and
\* raises no EoNError when report_times[0] >= times[0].
C22_EoNErrorIffReportStartsEarly ==
    Sampled => /\ ~StartsInRange => out.exc = "EoNError" /\ V = <<>>
               /\ StartsInRange => out.exc # "EoNError"

\* the three-status form raised EoNError
C22_Witness ==
    /\ Sampled /\ ~StartsInRange
    /\ args.status3.given
    /\ out.exc = "EoNError"

\* the one-status form returned with the first report time equal to the
\* first observation time
C22_WitnessInRange ==
    /\ Sampled /\ args.report_times[0] = args.times[0]
    /\ ~args.status2.given
    /\ pc = "returned"

---------------------------------------------------------------------------
(* Individual-based SIS evaluator (analytic.py 260-273)                    *)

\* the graph with every node label moved by d
Relabel(g, d) ==
    [nodes |-> { u + d : u \in g.nodes },
     edges |-> { { u + d : u \in e } : e \in g.edges },
     ew |-> [e \in { { u + d : u \in f } : f \in g.edges } |-> g.ew[{ u - d : u \in e }]],
     nw |-> [u \in { v + d : v \in g.nodes } |-> g.nw[u - d]]]

\* every list that holds each node of g once
Orderings(g) ==
    { l \in [0 .. (order(g) - 1) -> g.nodes] : \A u \in g.nodes : \E p \in DOMAIN l : l[p] = u }

\* numpy subscripting Y[u] of a one-dimensional array
Subscript_defined(Y, u) == -Len0(Y) <= u /\ u < Len0(Y)
Subscript(Y, u) == Y[(u + Len0(Y)) % Len0(Y)]

\* the labels the generator of line 271 subscripts Y with
dSIS_individual_subscripts(g, nodelist) ==
    UNION { {nodelist[index]} \cup neighbors(g, nodelist[index]) :
            index \in { p \in DOMAIN nodelist : neighbors(g, nodelist[p]) # {} } }

_dSIS_individual_based_(Y, g, nodelist, r) ==
    IF \E u \in dSIS_individual_subscripts(g, nodelist) : ~Subscript_defined(Y, u)
    THEN Raised("IndexError")
    ELSE Returned([index \in DOMAIN nodelist |->
            LET node == nodelist[index]
                Yi   == Y[index]
                term(nbr) == Mul3(trans_rate_fxn(g, r, node, nbr),
                                  Sub(One, Subscript(Y, node)), Subscript(Y, nbr))
            IN  Sub(SumSet(neighbors(g, node), term), Mul(rec_rate_fxn(g, r, node), Yi))])

---------------------------------------------------------------------------
(* Specification SpecIndividual: one evaluation of the individual-based    *)
(* SIS derivative on a graph, an ordering of its nodes and a state         *)

MaxIndNodes == 3

InitIndividual ==
    /\ G \in { Relabel(g, d) : g \in WeightedGraphs(1, MaxIndNodes), d \in { -1, 0 } }
    /\ fn = "none" /\ args = <<>> /\ pc = "ready"
    /\ V0 = NoVec /\ V = <<>> /\ ncalls = 0 /\ its = 0 /\ theta = Zero
    /\ out = Raised("none")
    /\ stepper = NoStepper
    /\ applied = NoApplication

Eval_dSIS_individual_based ==
    /\ pc = "ready"
    /\ \E nodelist \in Orderings(G), tw \in { "none", "weight" }, rw \in { "none", "weight" } :
       \E Y \in [0 .. (order(G) - 1) -> { Zero, Frac(1, 2), One }] :
        /\ fn' = "_dSIS_individual_based_"
        /\ args' = [Y |-> Y, nodelist |-> nodelist,
                    rates |-> _get_rate_functions(One, One, tw, rw)]
        /\ out' = _dSIS_individual_based_(Y, G, nodelist, args'.rates)
    /\ pc' = IF out'.exc = "none" THEN "returned" ELSE "raised"
    /\ UNCHANGED <<applied, stepper, G, V0, V, ncalls, its, theta>>

NextIndividual == Eval_dSIS_individual_based

SpecIndividual == InitIndividual /\ [][NextIndividual]_vars

---------------------------------------------------------------------------
(* C23                                                                     *)

\* the derivative of System (3.7) at position p, neighbours read at their positions
dY_by_position(p) ==
    LET u == args.nodelist[p]
        term(v) == Mul3(trans_rate_fxn(G, args.rates, u, v), Sub(One, args.Y[p]),
                        args.Y[index_of_node(args.nodelist, v)])
    IN  Sub(SumSet(neighbors(G, u), term), Mul(rec_rate_fxn(G, args.rates, u), args.Y[p]))

\* C23: for every graph and every ordering nodelist of its nodes,
\* _dSIS_individual_based_ returns at the position p of node u the sum over
\* the neighbours v of u of trans(u,v)*(1-Y[p])*Y[pos(v)] minus rec(u)*Y[p],
\* pos(v) being the position of v in nodelist.
C23_DerivativeByPosition ==
    (fn = "_dSIS_individual_based_" /\ pc # "ready")
        => /\ out.exc = "none"
           /\ DOMAIN out.val = DOMAIN args.nodelist
           /\ \A p \in DOMAIN args.nodelist : out.val[p] = dY_by_position(p)

---------------------------------------------------------------------------
(* C24                                                                     *)

PairBased == { "_dSIS_pair_based_", "_dSIR_pair_based_" }
pb_args_state ==
    IF fn = "_dSIS_pair_based_" THEN SISpb_state(args.V, order(G))
    ELSE SIRpb_state(args.V, order(G))
\* where the evaluator's flat result holds d<XY_ij> and d<XX_ij>
pb_dXY(i, j) ==
    out.val[(IF fn = "_dSIS_pair_based_" THEN 1 ELSE 2) * order(G) + i * order(G) + j]
pb_dXX(i, j) ==
    out.val[(IF fn = "_dSIS_pair_based_" THEN 1 ELSE 2) * order(G)
            + order(G) * order(G) + i * order(G) + j]
\* sum over the neighbours k of j other than i of tau*g_jk*<XX_ij>*<XY_jk>/<X_j>
triple_about_j(i, j) ==
    LET st == pb_args_state
        u  == args.nodelist[i]
        v  == args.nodelist[j]
    IN  SumSet(neighbors(G, v) \ {u}, LAMBDA w :
            pb_triple(G, args.r, v, w, st.XX[i][j],
                      st.XY[j][index_of_node(args.nodelist, w)], st.Xinv[j]))
\* sum over the neighbours k of i other than j of tau*g_ik*<Y_k X_i>*<P_ij>/<X_i>
triple_about_i(i, j, P) ==
    LET st == pb_args_state
        u  == args.nodelist[i]
        v  == args.nodelist[j]
    IN  SumSet(neighbors(G, u) \ {v}, LAMBDA w :
            pb_triple(G, args.r, u, w, st.YX[index_of_node(args.nodelist, w)][i],
                      P[i][j], st.Xinv[i]))
\* the terms of d<XY_ij> and d<XX_ij> that involve the pair alone
pair_terms_XY(i, j) ==
    LET st == pb_args_state
        u  == args.nodelist[i]
        v  == args.nodelist[j]
        loss == Neg(Mul(Add(trans_rate_fxn(G, args.r, u, v), rec_rate_fxn(G, args.r, v)),
                        st.XY[i][j]))
    IN  IF fn = "_dSIS_pair_based_"
        THEN Add(loss, Mul(rec_rate_fxn(G, args.r, u), st.YY[i][j]))
        ELSE loss
pair_terms_XX(i, j) ==
    LET st == pb_args_state
        u  == args.nodelist[i]
        v  == args.nodelist[j]
    IN  IF fn = "_dSIS_pair_based_"
        THEN Add(Mul(rec_rate_fxn(G, args.r, u), st.YX[i][j]),
                 Mul(rec_rate_fxn(G, args.r, v), st.XY[i][j]))
        ELSE Zero
EdgePositions ==
    { p \in (DOMAIN args.nodelist) \X (DOMAIN args.nodelist) :
        {args.nodelist[p[1]], args.nodelist[p[2]]} \in G.edges }

\* C24: in _dSIS_pair_based_, as in _dSIR_pair_based_, for every edge (i,j)
\* the triple term tau*g_jk*<XX_ij>*<XY_jk>/<X_j> (added to d<XY_ij>,
\* subtracted from d<XX_ij>) is summed over the neighbours k of j other than
\* i, and the triple term tau*g_ik*<Y_k X_i>*<.._ij>/<X_i> over the neighbours
\* k of i other than j.
C24_TripleSumsOverNeighbourSets ==
    (fn \in PairBased /\ pc # "ready")
        => /\ out.exc = "none"
           /\ \A p \in EdgePositions :
                /\ pb_dXY(p[1], p[2]) =
                     Add(pair_terms_XY(p[1], p[2]),
                         Sub(triple_about_j(p[1], p[2]),
                             triple_about_i(p[1], p[2], pb_args_state.XY)))
                /\ pb_dXX(p[1], p[2]) =
                     Sub(Sub(pair_terms_XX(p[1], p[2]), triple_about_j(p[1], p[2])),
                         triple_about_i(p[1], p[2], pb_args_state.XX))
\* the same statement of _dSIR_pair_based_ alone
C24_HoldsOfSIR == (fn = "_dSIR_pair_based_") => C24_TripleSumsOverNeighbourSets

---------------------------------------------------------------------------
(* C25                                                                     *)

PairBasedDrivers == { "SIS_pair_based", "SIR_pair_based" }
\* where the flat state of a pair-based driver holds <XY_ij> and <XX_ij>
pb_XY_at(i, j) == (IF fn = "SIS_pair_based" THEN 1 ELSE 2) * order(G) + i * order(G) + j
pb_XX_at(i, j) == pb_XY_at(i, j) + order(G) * order(G)
\* the value the call gives <XY_ij> and <XX_ij> before the adjacency mask
pb_initial_XY(i, j) ==
    IF args.XY0.given THEN args.XY0.val[i][j]
    ELSE Mul(Sub(One, args.Y0[i]), args.Y0[j])
pb_initial_XX(i, j) ==
    IF args.XX0.given THEN args.XX0.val[i][j]
    ELSE Mul(Sub(One, args.Y0[i]), Sub(One, args.Y0[j]))
Positions == (0 .. (order(G) - 1)) \X (0 .. (order(G) - 1))
Joined(p) == {nodelist_of(G)[p[1]], nodelist_of(G)[p[2]]} \in G.edges

\* C25: in SIS_pair_based and SIR_pair_based, for every pair of positions
\* whose nodes are not joined by an edge, the XY and XX entries are 0 in the
\* initial flat state and stay 0 along the whole trajectory, with or without
\* XY0 and XX0 supplied; entries of pairs that are edges keep their initial
\* value in the initial flat state.
C25_NonEdgeEntriesStayZero ==
    (fn \in PairBasedDrivers /\ pc # "ready")
        => /\ out.exc = "none"
           /\ \A p \in Positions :
                IF Joined(p)
                THEN /\ V0[pb_XY_at(p[1], p[2])] = pb_initial_XY(p[1], p[2])
                     /\ V0[pb_XX_at(p[1], p[2])] = pb_initial_XX(p[1], p[2])
                ELSE /\ V0[pb_XY_at(p[1], p[2])] = Zero
                     /\ V0[pb_XX_at(p[1], p[2])] = Zero
                     /\ \A t \in DOMAIN V : /\ V[t][pb_XY_at(p[1], p[2])] = Zero
                                            /\ V[t][pb_XX_at(p[1], p[2])] = Zero

---------------------------------------------------------------------------
(* Super compact pairwise SIS evaluator (analytic.py 2864-2891)            *)

\* the closure factor as line 2882-2883 computes it
super_compact_Q(S, n_S, k_ave, ksquare_ave, kcube_ave) ==
    Div(Sub(Mul(Add(Mul(ksquare_ave, Sub(ksquare_ave, Mul(n_S, k_ave))),
                    Mul(kcube_ave, Sub(n_S, k_ave))),
                Mul(n_S, Sub(ksquare_ave, Pow(k_ave, 2)))),
            One),
        Mul(S, n_S))

\* the four derivatives, given the closure factor
super_compact_derivative(X, Q, tau, gamma) ==
    LET I  == X[0]
        SS == X[1]
        SI == X[2]
        II == X[3]
        dIdt  == Sub(Mul(tau, SI), Mul(gamma, I))
        dSSdt == Sub(Mul3(Num(2), gamma, SI), Mul4(Mul(Num(2), tau), SI, SS, Q))
        dSIdt == Sub(Add(Mul(gamma, Sub(II, SI)), Mul4(tau, SI, Sub(SS, SI), Q)), Mul(tau, SI))
        dIIdt == Add(Add(Neg(Mul3(Num(2), gamma, II)), Mul4(Mul(Num(2), tau), Pow(SI, 2), Q, One)),
                     Mul3(Num(2), tau, SI))
    IN  Vec(<<dIdt, dSSdt, dSIdt, dIIdt>>)

_dSIS_super_compact_pairwise_(X, tau, gamma, N, k_ave, ksquare_ave, kcube_ave) ==
    LET S   == Sub(N, X[0])
        n_S == Div(Add(X[1], X[2]), S)
    IN  super_compact_derivative(X, super_compact_Q(S, n_S, k_ave, ksquare_ave, kcube_ave),
                                 tau, gamma)

---------------------------------------------------------------------------
(* Specification SpecSuperCompact: one evaluation of the super compact     *)
(* pairwise SIS derivative on a state and a triple of degree moments       *)

MaxMoment == 2

\* <K>, <K^2>, <K^3> of a population split evenly between two different
\* degrees up to MaxMoment + 1
MomentTriples ==
    { [k |-> Div(Num(p[1] + p[2]), Num(2)),
       k2 |-> Div(Num(p[1] * p[1] + p[2] * p[2]), Num(2)),
       k3 |-> Div(Num(p[1] * p[1] * p[1] + p[2] * p[2] * p[2]), Num(2))] :
        p \in { q \in (1 .. MaxMoment) \X (2 .. (MaxMoment + 1)) : q[1] < q[2] } }

Eval_SIS_super_compact_pairwise ==
    /\ pc = "ready"
    /\ \E X \in [0 .. 3 -> { One, Num(2) }], m \in MomentTriples, N \in { Num(3), Num(4) } :
       \E tau \in { One, Num(2) } :
        /\ fn' = "_dSIS_super_compact_pairwise_"
        /\ args' = [X |-> X, tau |-> tau, gamma |-> One, N |-> N, k_ave |-> m.k,
                    ksquare_ave |-> m.k2, kcube_ave |-> m.k3]
        /\ out' = Returned(_dSIS_super_compact_pairwise_(X, tau, One, N, m.k, m.k2, m.k3))
    /\ pc' = "returned"
    /\ UNCHANGED <<applied, stepper, G, V0, V, ncalls, its, theta>>

NextSuperCompact == Eval_SIS_super_compact_pairwise

SpecSuperCompact == InitAttack /\ [][NextSuperCompact]_vars

---------------------------------------------------------------------------
(* C26                                                                     *)

\* n_S = ([SI]+[SS])/(N-[I]) of the evaluated state
C26_n_S == Div(Add(args.X[2], args.X[1]), Sub(args.N, args.X[0]))
\* Q as the docstring of _dSIS_super_compact_pairwise_ writes it
C26_Q ==
    Div(Sub(Div(Add(Mul(args.ksquare_ave, Sub(args.ksquare_ave, Mul(C26_n_S, args.k_ave))),
                    Mul(args.kcube_ave, Sub(C26_n_S, args.k_ave))),
                Mul(C26_n_S, Sub(args.ksquare_ave, Pow(args.k_ave, 2)))),
            One),
        Mul(C26_n_S, Sub(args.N, args.X[0])))

\* C26: _dSIS_super_compact_pairwise_ returns the derivative of its system
\* with the closure factor Q = ((<K^2>*(<K^2> - n_S*<K>) + <K^3>*(n_S - <K>))
\* / (n_S*(<K^2> - <K>^2)) - 1) / (n_S*[S]), n_S = ([SI]+[SS])/(N-[I]), for
\* every state and every triple of degree moments.
C26_ClosureFactorAsDocumented ==
    (fn = "_dSIS_super_compact_pairwise_" /\ pc = "returned")
        => out.val = super_compact_derivative(args.X, C26_Q, args.tau, args.gamma)

---------------------------------------------------------------------------
(* SIR_pair_based2 and its two initialisers (analytic.py 1260-1453)        *)

\* bool(x) of an optional scalar
TruthOfNumber(x) == x.given /\ x.val # Zero
\* bool(a) of an optional array: "true", "false", or "ValueError" for an
\* array of more than one element
TruthOfArray(a) ==
    IF ~a.given \/ Len0(a.val) = 0 THEN "false"
    ELSE IF Len0(a.val) > 1 THEN "ValueError"
    ELSE IF a.val[0] # Zero THEN "true" ELSE "false"
\* bool(a != None): numpy compares the array as one object (elementwise
\* FALSE) or element by element (elementwise TRUE), by its version
TruthOfNotEqualNone(a, elementwise) ==
    IF ~a.given THEN "false"
    ELSE IF ~elementwise THEN "true"
    ELSE TruthOfArray(Some([i \in DOMAIN a.val |-> One]))

_SIR_pair_based_initialize_node_data(g, rho, nodelist, X0, Y0) ==
    IF (TruthOfNumber(rho) /\ Y0.given) \/ (~TruthOfNumber(rho) /\ ~Y0.given)
    THEN RaiseNamed("EoNError")
    ELSE IF Y0.given /\ ~nodelist.given THEN RaiseNamed("EoNError")
    ELSE LET nl == IF ~nodelist.given \/ Len0(nodelist.val) = 0 THEN nodelist_of(g)
                   ELSE nodelist.val
         IN  IF TruthOfNumber(rho)
             THEN Returned(<<nl, Fill(Len0(nl), Sub(One, rho.val)), Fill(Len0(nl), rho.val)>>)
             ELSE IF TruthOfArray(X0) = "ValueError" THEN Raised("ValueError")
             ELSE IF TruthOfArray(X0) = "false" THEN Returned(<<nl, OneMinus(Y0.val), Y0.val>>)
             ELSE Returned(<<nl, X0.val, Y0.val>>)

\* the test of lines 1281-1282, with the short circuits of `or` and `and`
edge_data_some_but_not_all(XY0, YX0, XX0, elementwise) ==
    IF ~(XY0.given \/ ~YX0.given \/ ~XX0.given) THEN "false"
    ELSE IF XY0.given THEN "true"
    ELSE IF TruthOfNotEqualNone(YX0, elementwise) # "false"
         THEN TruthOfNotEqualNone(YX0, elementwise)
    ELSE IF XX0.given THEN "true" ELSE "false"

\* the products the initialiser fills in when no edge data is used
edge_data_default(edgelist, nodelist, A, B) ==
    [e \in DOMAIN edgelist |-> Mul(A[index_of_node(nodelist, edgelist[e][1])],
                                   B[index_of_node(nodelist, edgelist[e][2])])]

_SIR_pair_based_initialize_edge_data(g, edgelist, nodelist, XY0, YX0, XX0, X0, Y0, elementwise) ==
    LET test == edge_data_some_but_not_all(XY0, YX0, XX0, elementwise)
        no_edgelist == ~edgelist.given \/ Len0(edgelist.val) = 0
        el == IF no_edgelist THEN edgelist_of(g) ELSE edgelist.val
    IN  IF test = "ValueError" THEN Raised("ValueError")
        ELSE IF test = "true" THEN RaiseNamed("EoNError")
        ELSE IF no_edgelist /\ TruthOfArray(XY0) = "ValueError" THEN Raised("ValueError")
        ELSE IF no_edgelist /\ TruthOfArray(XY0) = "true" THEN RaiseNamed("EoNError")
        ELSE IF TruthOfArray(XY0) = "ValueError" THEN Raised("ValueError")
        ELSE IF TruthOfArray(XY0) = "true"
             \* the loop's test reads I_v, or raises EoNError first
             THEN IF Len0(el) > 0 THEN Raised("NameError")
                  ELSE Returned(<<el, XY0.val, YX0.val, XX0.val>>)
        ELSE Returned(<<el, edge_data_default(el, nodelist, X0, Y0),
                        edge_data_default(el, nodelist, Y0, X0),
                        edge_data_default(el, nodelist, X0, X0)>>)

\* what SIR_pair_based2 does with the trajectory the integrator returned
SIR_pair_based2_unpack(Vt, nodelist, edgelist, return_full_data) ==
    LET N  == Len0(nodelist)
        E  == Len0(edgelist)
        Xs == Cols(Vt, 0, N)
        Ys == Cols(Vt, N, 2 * N)
        Zs == [k \in DOMAIN Xs |-> [t \in DOMAIN Vt |-> Sub(Sub(One, Xs[k][t]), Ys[k][t])]]
        XY == Cols(Vt, 2 * N, 2 * N + E)
        YX == Cols(Vt, 2 * N + E, 2 * N + 2 * E)
        XX == Cols(Vt, 2 * N + 2 * E, 2 * N + 3 * E)
        YY == [k \in DOMAIN XY |-> [t \in DOMAIN Vt |->
                  Sub(Sub(Sub(One, XY[k][t]), YX[k][t]), XX[k][t])]]
    IN  IF return_full_data
        THEN <<times, SumAxis0(Xs, Vt), SumAxis0(Ys, Vt), SumAxis0(Zs, Vt), Xs, Ys, Zs,
               XY, YX, XX, YY, edgelist, nodelist>>
        ELSE <<times, SumAxis0(Xs, Vt), SumAxis0(Ys, Vt), SumAxis0(Zs, Vt)>>

SIR_pair_based2_integrate(g, nd, ed, r, return_full_data) ==
    LET v0 == Concat(nd[2], Concat(nd[3], Concat(ed[2], Concat(ed[3], ed[4]))))
        d  == _dSIR_pair_based2_(v0, g, nd[1], ed[1], r)
    IN  IF d.exc # "none" THEN Outcome(d, v0, <<>>, 1)
        ELSE Outcome(Returned(SIR_pair_based2_unpack(pair_based_integrate(v0, d), nd[1], ed[1],
                                                     return_full_data)),
                     v0, pair_based_integrate(v0, d), 1)

SIR_pair_based2(g, tau, gamma, rho, nodelist, X0, Y0, edgelist, XY0, YX0, XX0, transmission_weight, recovery_weight, return_full_data, elementwise) ==
    LET nd == _SIR_pair_based_initialize_node_data(g, rho, nodelist, X0, Y0)
    IN  IF nd.exc # "none" THEN Early(nd)
        ELSE LET ed == _SIR_pair_based_initialize_edge_data(g, edgelist, nd.val[1], XY0, YX0,
                            XX0, nd.val[2], nd.val[3], elementwise)
             IN  IF ed.exc # "none" THEN Early(ed)
                 ELSE IF ~Resolves("_get_rate_functions") THEN Early(Raised("NameError"))
                 ELSE SIR_pair_based2_integrate(g, nd.val, ed.val,
                          _get_rate_functions(tau, gamma, transmission_weight, recovery_weight),
                          return_full_data)

---------------------------------------------------------------------------
(* Specification SpecPairBased2: one call of SIR_pair_based2 on a graph    *)

\* an edge array of the caller: absent, or one value per edge of the graph
EdgeArrays == { None, Some(Fill(Cardinality(G.edges), Frac(1, 4))) }

Call_SIR_pair_based2 ==
    /\ pc = "ready"
    /\ \E rho \in { None, Some(Frac(1, 2)) }, XY0 \in EdgeArrays, YX0 \in EdgeArrays :
       \E XX0 \in EdgeArrays, edgelist \in { None, Some(edgelist_of(G)) } :
       \E elementwise \in BOOLEAN, full \in BOOLEAN :
           Ends("SIR_pair_based2",
                [rho |-> rho, edgelist |-> edgelist, XY0 |-> XY0, YX0 |-> YX0, XX0 |-> XX0,
                 return_full_data |-> full, elementwise |-> elementwise],
                SIR_pair_based2(G, One, One, rho, None, None, None, edgelist, XY0, YX0, XX0,
                                "none", "none", full, elementwise))

NextPairBased2 == Call_SIR_pair_based2

SpecPairBased2 == InitClosure /\ [][NextPairBased2]_vars

---------------------------------------------------------------------------
(* C27                                                                     *)

\* how many of XY0, YX0 and XX0 the caller supplied
EdgeDataSupplied ==
    Cardinality({ x \in { "XY0", "YX0", "XX0" } : args[x].given })

\* C27: SIR_pair_based2, called with rho, raises EoNError exactly when
\* some but not all of XY0, YX0 and XX0 are supplied; when all three are
\* supplied together with an edgelist, or when none is supplied, no error is
\* raised and the integrator is called.
C27_EoNErrorIffSomeButNotAll ==
    (fn = "SIR_pair_based2" /\ pc # "ready" /\ args.rho.given)
        => /\ (out.exc = "EoNError") <=> (EdgeDataSupplied \in { 1, 2 })
           /\ (EdgeDataSupplied = 0 \/ (EdgeDataSupplied = 3 /\ args.edgelist.given))
                => (out.exc = "none" /\ ncalls = 1)

---------------------------------------------------------------------------
(* C28                                                                     *)

EdgeCountWrappers ==
    { "SIS_compact_pairwise_from_graph", "SIS_super_compact_pairwise_from_graph",
      "SIS_homogeneous_pairwise_from_graph" }
\* the sum over the degrees k of k*Nk: twice the number of edges
degree_sum == Num(IntSumOver([u \in G.nodes |-> degree(G, u)], G.nodes))
\* [II] of the initial condition handed to the driver; the homogeneous
\* driver takes none, and n*N - SS0 - 2*SI0 stands for it
C28_II0 ==
    IF fn = "SIS_homogeneous_pairwise_from_graph"
    THEN Sub(Sub(Mul(out.val.ic.n, Num(order(G))), out.val.ic.SS0),
             Mul(Num(2), out.val.ic.SI0))
    ELSE out.val.ic.II0

\* C28: for every graph with nodes and every rho in [0,1],
\* SIS_compact_pairwise_from_graph, SIS_super_compact_pairwise_from_graph and
\* SIS_homogeneous_pairwise_from_graph build edge counts with
\* SS0 + 2*SI0 + II0 equal to the total degree of the graph and II0 >= 0.
C28_EdgeCountsMatchGraph ==
    (fn \in EdgeCountWrappers /\ pc # "ready" /\ G.nodes # {} /\ args.rho.given)
        => /\ out.exc = "none"
           /\ Add(Add(out.val.ic.SS0, Mul(Num(2), out.val.ic.SI0)), C28_II0) = degree_sum
           /\ ~Gt(Zero, C28_II0)

---------------------------------------------------------------------------
(* Specification SpecEffDegSupport: _dSIS_effective_degree_ on the states  *)
(* of a square lattice whose mass lies in the cells with s + i <= side - 1, *)
(* the cells SIS_effective_degree_from_graph fills (analytic.py 3312-3317) *)

MaxSupportSide == 3

\* the flat positions of the cells (s,i) with s + i <= side - 1
SupportCells(side) ==
    { x \in 0 .. (side * side - 1) : (x \div side) + (x % side) <= side - 1 }
\* every 0/1 filling of the support, flattened
SupportedLattices(side) ==
    { [x \in 0 .. (side * side - 1) |-> IF x \in T THEN One ELSE Zero] :
        T \in SUBSET SupportCells(side) }

Eval_SIS_effective_degree_supported ==
    /\ pc = "ready"
    /\ \E side \in 2 .. MaxSupportSide, rates \in { <<One, Num(2)>>, <<Num(2), One>> } :
       \E S \in SupportedLattices(side) :
       \E cm \in ({ Zero } \X SupportCells(side)) \cup { <<Num(2), -1>> } :
        LET I == [x \in DOMAIN S |-> Add(Mul(cm[1], S[x]), IF x = cm[2] THEN One ELSE Zero)]
            X == Concat(S, I)
        IN  /\ fn' = "_dSIS_effective_degree_"
            /\ args' = [X |-> X, original_shape |-> Vec(<<side, side>>),
                        tau |-> rates[1], gamma |-> rates[2]]
            /\ out' = _dSIS_effective_degree_(X, Vec(<<side, side>>), rates[1], rates[2])
    /\ Finish
    /\ UNCHANGED <<applied, stepper, G, V0, V, ncalls, its, theta>>

NextEffDegSupport == Eval_SIS_effective_degree_supported

SpecEffDegSupport == InitEffDeg /\ [][NextEffDegSupport]_vars

---------------------------------------------------------------------------
(* C29                                                                     *)

C29_side == args.original_shape[0]
\* the mass of the evaluated state lies in the cells with s + i <= side - 1
C29_Supported ==
    /\ args.original_shape[1] = C29_side
    /\ \A x \in DOMAIN args.X :
         (x % (C29_side * C29_side)) \notin SupportCells(C29_side) => args.X[x] = Zero
\* [SS] and [SI] of the evaluated state
C29_SS == SumOver([x \in 0 .. (C29_side * C29_side - 1) |->
                      Mul(Num(x \div C29_side), args.X[x])], 0 .. (C29_side * C29_side - 1))
C29_SI == SumOver([x \in 0 .. (C29_side * C29_side - 1) |->
                      Mul(Num(x % C29_side), args.X[x])], 0 .. (C29_side * C29_side - 1))

\* C29: _dSIS_effective_degree_ conserves the population: on a state whose
\* mass lies only in cells with s + i <= side - 1 and whose [SS] and [SI] are
\* nonzero, the entries of the returned derivative (dS and dI of every cell)
\* add up to 0.
C29_PopulationConserved ==
    (fn = "_dSIS_effective_degree_" /\ pc # "ready" /\ C29_Supported
       /\ C29_SS # Zero /\ C29_SI # Zero)
        => /\ out.exc = "none"
           /\ AllDefined(out.val)
           /\ SumArr(out.val) = Zero

\* a 3x3 lattice with susceptible mass on the whole diagonal s + i = 2,
\* infected mass in the same cells, and a derivative that is not zero
C29_Witness ==
    /\ fn = "_dSIS_effective_degree_" /\ pc = "returned" /\ C29_Supported
    /\ C29_side = 3
    /\ C29_SS # Zero /\ C29_SI # Zero
    /\ args.X[2] = One /\ args.X[4] = One /\ args.X[6] = One
    /\ args.X[9 + 4] = Num(2)
    /\ \E x \in DOMAIN out.val : out.val[x] # Zero

---------------------------------------------------------------------------
(* C30                                                                     *)

HeterogeneousPairwiseEvaluators ==
    { "_dSIS_heterogeneous_pairwise_", "_dSIR_heterogeneous_pairwise_" }

\* C30: when the list of degrees Ks contains degree 0, the heterogeneous
\* pairwise evaluators still return a fully defined derivative: the closure
\* factor (k-1)/(k*[S_k]) is never evaluated with a zero denominator for the
\* degree-0 class.
C30_DegreeZeroClassIsDefined ==
    (fn \in HeterogeneousPairwiseEvaluators /\ pc # "ready"
       /\ \E x \in DOMAIN args.Ks : args.Ks[x] = 0)
        => /\ out.exc = "none"
           /\ AllDefined(out.val)

=============================================================================
